---- MODULE Spec2Model ----
(***************************************************************************)
(* Layered configuration resolution of Arcella: the merge engine           *)
(* (arcella/src/config/mod.rs, merge_config) and the recursive loader      *)
(* (arcella-fs-utils/src/config_loader.rs, load_config_recursive), with    *)
(* the inclusion resolver (arcella-fs-utils/src/lib.rs) and the TOML       *)
(* traversal (arcella-fs-utils/src/toml.rs); and the connection handler of *)
(* the ALME server (arcella/src/alme/server.rs, handle_connection).        *)
(***************************************************************************)
EXTENDS Integers, Sequences, FiniteSets, TLC

VARIABLES
    \* ---- merge_config (arcella/src/config/mod.rs) ----
    default_config,        \* &TomlFileData: the default schema
    configs,               \* &Vec<TomlFileData>: loaded files, primary file first
    config_files,          \* IndexSet<PathBuf>: the known-files table of the run
    warnings,              \* Vec<ConfigLoadWarning>
    preliminary_values,    \* IndexMap<String, ResolvedValue>
    final_values,          \* ConfigValues: IndexMap<String, (Value, usize)>
    main_idx,              \* Option<usize>
    default_idx,           \* Option<usize>
    merge_pc,              \* position inside merge_config
    layer_idx,             \* outer loop variable of the reconciliation pass
    entry_pos,             \* inner loop position (1-based) in the current map
    merge_result,          \* "none", "Ok", "panic"
    entry_warnings,        \* Len(warnings) when merge_config was entered
    \* ---- load_config_recursive (arcella-fs-utils/src/config_loader.rs) ----
    fs,                    \* the files on disk: path -> content and readability
    visited_paths,         \* ConfigLoadState::visited_paths
    stack,                 \* active load_config_recursive_from_content calls
    load_status,           \* "idle", "running", "Ok", "Err"
    load_error,            \* the ArcellaUtilsError returned, or None
    load_configs,          \* the Vec<TomlFileData> returned
    read_log,              \* history: paths passed to read_to_string, in order
    parse_log,             \* history: paths whose content was parsed, in order
    load_runs,             \* how often the caller has called the entry point again
    \* ---- find_toml_files_in_dir, collect_includes (arcella-fs-utils/src/lib.rs) ----
    scan_pc,               \* "idle", "ready", "found", "collected", "joining", "joined"
    scan_in,               \* the arguments and the order fs::read_dir yields
    scan_out,              \* the value returned
    scan_join,             \* collect_includes in flight: its vectors and pending scans
    \* ---- parse_and_collect (arcella-fs-utils/src/toml.rs) ----
    toml_pc,               \* "idle", "ready", "done"
    toml_in,               \* the arguments: content, prefix, file_idx
    toml_out,              \* the value returned
    \* ---- handle_connection (arcella/src/alme/server.rs) ----
    alme_pc,               \* "idle", "serving" (at the head of the loop), "returned"
    client_lines,          \* lines the client has sent and the handler has not read
    lines_read,            \* history: the lines read, in order
    write_log,             \* history: the writes attempted and whether they succeeded
    responses,             \* what the client has received, in order
    handler_result,        \* the value handle_connection returned, or None
    \* ---- spawn_server, run_server_loop (arcella/src/alme/server.rs),
    \*      AlmeServerHandle (arcella/src/alme/mod.rs) ----
    server_pc,             \* the spawned task: "idle", "accepting", "exited", "finished"
    socket_file,           \* whether the file at socket_path exists
    shutdown_tx,           \* AlmeServerHandle::shutdown_tx: "Some" or "None"
    join_handle,           \* the handle: "none", "held", "awaited", "returned", "dropped"
    shutdown_rx,           \* the receiver of run_server_loop
    handlers,              \* per connection: the handle_connection task and its client
    \* ---- ConfigData (arcella-types/src/value/mod.rs) ----
    data_pc,               \* "idle", "input", "built"
    data_in,               \* the IndexMap given to ConfigData::new, in insertion order
    data,                  \* the ConfigData: values and sections
    data_out,              \* the last query made and what it returned
    \* ---- AlmeBufferLayer, get_recent_logs (src/log/mod.rs) ----
    log_pc,                \* "idle", "running"
    max_size,              \* AlmeBufferLayer::max_size (TracingConfig::alme_buffer_size)
    log_buffer,            \* LOG_BUFFER: None, or Some of the VecDeque behind the mutex
    log_mutex,             \* the Mutex: who holds it, and whether it is poisoned
    log_threads,           \* per thread: the call it is in and how far it has got
    event_log,             \* history: the lines on_event was called with, in order
    \* ---- DeploymentSpec::create_deployment (arcella/src/manifest/mod.rs) ----
    deploy_pc,             \* "idle", "ready", "returned"
    deploy_in,             \* the DeploymentSpec and the Option<&DeploymentTemplate>
    deploy_out             \* the ArcellaResult<FullDeployment> returned

merge_vars == <<default_config, configs, config_files, warnings,
                preliminary_values, final_values, main_idx, default_idx,
                merge_pc, layer_idx, entry_pos, merge_result, entry_warnings>>

load_vars == <<fs, visited_paths, stack, load_status, load_error, load_configs,
               read_log, parse_log, load_runs>>

scan_vars == <<scan_pc, scan_in, scan_out, scan_join>>

\* the variables of the specifications that follow the loader
toml_vars == <<toml_pc, toml_in, toml_out>>

alme_vars == <<alme_pc, client_lines, lines_read, write_log, responses, handler_result>>

server_vars == <<server_pc, socket_file, shutdown_tx, join_handle, shutdown_rx, handlers>>

data_vars == <<data_pc, data_in, data, data_out>>

log_vars == <<log_pc, max_size, log_buffer, log_mutex, log_threads, event_log>>

deploy_vars == <<deploy_pc, deploy_in, deploy_out>>

\* the variables of the specifications that follow the server
more_vars == <<data_vars, log_vars, deploy_vars>>

rest_vars == <<scan_vars, toml_vars, alme_vars, server_vars, more_vars>>

vars == <<merge_vars, load_vars, rest_vars>>

\* no inclusion scan has been asked for
ScanIdle ==
    /\ scan_pc = "idle"
    /\ scan_in = <<>>
    /\ scan_out = <<>>
    /\ scan_join = <<>>

\* no text has been given to parse_and_collect
TomlIdle ==
    /\ toml_pc = "idle"
    /\ toml_in = <<>>
    /\ toml_out = <<>>

\* no client is connected
AlmeIdle ==
    /\ alme_pc = "idle"
    /\ client_lines = <<>>
    /\ lines_read = <<>>
    /\ write_log = <<>>
    /\ responses = <<>>
    /\ handler_result = <<>>

\* no server has been spawned
ServerIdle ==
    /\ server_pc = "idle"
    /\ socket_file = FALSE
    /\ shutdown_tx = "None"
    /\ join_handle = "none"
    /\ shutdown_rx = "none"
    /\ handlers = <<>>

\* no ConfigData has been asked for
DataIdle ==
    /\ data_pc = "idle"
    /\ data_in = <<>>
    /\ data = <<>>
    /\ data_out = <<>>

\* tracing has not been initialised
LogIdle ==
    /\ log_pc = "idle"
    /\ max_size = 0
    /\ log_buffer = <<>>
    /\ log_mutex = <<>>
    /\ log_threads = <<>>
    /\ event_log = <<>>

\* no deployment has been asked for
DeployIdle ==
    /\ deploy_pc = "idle"
    /\ deploy_in = <<>>
    /\ deploy_out = <<>>

MoreIdle == DataIdle /\ LogIdle /\ DeployIdle

RestIdle == ScanIdle /\ TomlIdle /\ AlmeIdle /\ ServerIdle /\ MoreIdle

\* what the loader never touches
merge_vars_but_state ==
    <<default_config, configs, preliminary_values, final_values, main_idx,
      default_idx, merge_pc, layer_idx, entry_pos, merge_result, entry_warnings>>

-----------------------------------------------------------------------------
(* Bounds of the model                                                     *)

\* most entries the loaded files hold together
MaxEntries == 3
\* most include entries besides the chain root -> level_1 -> level_2 -> ...
MaxExtra == 1

-----------------------------------------------------------------------------
(* Strings, options, paths                                                 *)

ends_with(s, suffix) ==
    /\ Len(s) >= Len(suffix)
    /\ SubSeq(s, Len(s) - Len(suffix) + 1, Len(s)) = suffix

starts_with(s, prefix) ==
    /\ Len(s) >= Len(prefix)
    /\ SubSeq(s, 1, Len(prefix)) = prefix

contains(s, pat) ==
    \E i \in 1..(Len(s) - Len(pat) + 1) : SubSeq(s, i, i + Len(pat) - 1) = pat

min(a, b) == IF a < b THEN a ELSE b

\* the element of a one-element set
only(S) == CHOOSE x \in S : TRUE

None == <<>>
Some(x) == <<x>>

\* Path::join for a relative second component
join(dir, name) == dir \o "/" \o name

\* IndexSet::get_index_of : 0-based position of the path, or None
get_index_of(set, path) ==
    IF \E i \in 1..Len(set) : set[i] = path
    THEN Some((CHOOSE i \in 1..Len(set) : set[i] = path) - 1)
    ELSE None

-----------------------------------------------------------------------------
(* Constants of arcella/src/config/mod.rs                                  *)

REDEF_SUFFIX == "#redef"
MAIN_CONFIG_FILENAME == "arcella.toml"
DEFAULT_CONFIG_FILENAME == "default_config.toml"

\* let config_dir = base_dir.join("config") (line 170)
config_dir == "config"

make_toml_value(s) == [variant |-> "String", s |-> s]

ValueError(key, error, file) ==
    [type |-> "ValueError", key |-> key, error |-> error, file |-> file]

Internal(msg) == [type |-> "Internal", message |-> msg]

ResolvedValue(value, source_layer, source_file, redef_allowed_by) ==
    [value |-> value, source_layer |-> source_layer,
     source_file |-> source_file, redef_allowed_by |-> redef_allowed_by]

\* IndexMap helpers: a map is a sequence of entries with pairwise distinct keys
map_contains(m, key) == \E i \in 1..Len(m) : m[i].key = key
map_pos(m, key) == CHOOSE i \in 1..Len(m) : m[i].key = key
map_get(m, key) == m[map_pos(m, key)]
map_keys(m) == {m[i].key : i \in 1..Len(m)}

-----------------------------------------------------------------------------
(* merge_config: reconciliation pass (lines 267-320)                       *)

\* (actual_key, is_redef) of a raw key (lines 274-280)
is_redef(key) == ends_with(key, REDEF_SUFFIX)

\* a reconciliation that keeps the suffix in the key
actual_key_unstripped(key) == key

actual_key(key) ==
    IF is_redef(key) THEN SubSeq(key, 1, Len(key) - Len(REDEF_SUFFIX)) ELSE key

\* The loop position that follows (layer, pos) in
\* `for layer_idx in (0..configs.len()).rev() { for ... in &config.values`:
\* the first position at or after pos in this layer, else the first entry of
\* the next lower layer index; <<-1, 0>> when the loops are exhausted.
RECURSIVE loop_cursor(_, _)
loop_cursor(layer, pos) ==
    IF layer < 0 THEN <<-1, 0>>
    ELSE IF pos <= Len(configs[layer + 1].values) THEN <<layer, pos>>
    ELSE loop_cursor(layer - 1, 1)

current_entry == configs[layer_idx + 1].values[entry_pos]

layer_file(idx) == "layer_" \o ToString(idx) \o ".toml"

no_redef_warning(key, e) ==
    ValueError(key,
        "Value from file " \o ToString(e.source_file)
            \o " ignored due to no #redef flag in layer " \o ToString(layer_idx),
        layer_file(layer_idx))

pass1_advance ==
    LET c == loop_cursor(layer_idx, entry_pos + 1) IN
    /\ layer_idx' = c[1]
    /\ entry_pos' = c[2]
    /\ merge_pc' = IF c[1] < 0 THEN "indices" ELSE "pass1"

merge_frame ==
    UNCHANGED <<default_config, configs, config_files, entry_warnings, load_vars,
                rest_vars>>

\* let mut preliminary_values = IndexMap::new(); and entry into the loops
MergeEnter ==
    /\ merge_pc = "enter"
    /\ preliminary_values' = <<>>
    /\ LET c == loop_cursor(Len(configs) - 1, 1) IN
        /\ layer_idx' = c[1]
        /\ entry_pos' = c[2]
        /\ merge_pc' = IF c[1] < 0 THEN "indices" ELSE "pass1"
    /\ UNCHANGED <<warnings, final_values, main_idx, default_idx, merge_result>>
    /\ merge_frame

\* a first occurrence that records a suffixed entry as a grant by its own file
ReconcileVacantGrantingItself ==
    /\ merge_pc = "pass1"
    /\ LET e == current_entry
           k == actual_key(e.key) IN
        /\ ~map_contains(preliminary_values, k)
        /\ preliminary_values' = Append(preliminary_values,
               [key |-> k] @@ ResolvedValue(e.value, layer_idx, e.file_idx,
                   IF is_redef(e.key) THEN Some(e.file_idx) ELSE None))
    /\ pass1_advance
    /\ UNCHANGED <<warnings, final_values, main_idx, default_idx, merge_result>>
    /\ merge_frame

\* Entry::Vacant (lines 305-316)
ReconcileVacant ==
    /\ merge_pc = "pass1"
    /\ LET e == current_entry
           k == actual_key(e.key) IN
        /\ ~map_contains(preliminary_values, k)
        /\ preliminary_values' = Append(preliminary_values,
               [key |-> k] @@ ResolvedValue(e.value, layer_idx, e.file_idx, None))
    /\ pass1_advance
    /\ UNCHANGED <<warnings, final_values, main_idx, default_idx, merge_result>>
    /\ merge_frame

\* an overwrite branch that only warns: the lower layer's value stays
ReconcileOverwriteIgnored ==
    /\ merge_pc = "pass1"
    /\ LET e == current_entry
           k == actual_key(e.key) IN
        /\ map_contains(preliminary_values, k)
        /\ ~is_redef(e.key)
        /\ warnings' = Append(warnings, no_redef_warning(k, map_get(preliminary_values, k)))
    /\ pass1_advance
    /\ UNCHANGED <<preliminary_values, final_values, main_idx, default_idx, merge_result>>
    /\ merge_frame

\* an overwrite branch that also forgets who granted the redefinition
ReconcileOverwriteClearingGrant ==
    /\ merge_pc = "pass1"
    /\ LET e == current_entry
           k == actual_key(e.key) IN
        /\ map_contains(preliminary_values, k)
        /\ ~is_redef(e.key)
        /\ LET i == map_pos(preliminary_values, k)
               old == preliminary_values[i] IN
            /\ warnings' = Append(warnings, no_redef_warning(k, old))
            /\ preliminary_values' = [preliminary_values EXCEPT
                   ![i] = [key |-> k] @@ ResolvedValue(e.value, layer_idx, e.file_idx, None)]
    /\ pass1_advance
    /\ UNCHANGED <<final_values, main_idx, default_idx, merge_result>>
    /\ merge_frame

\* Entry::Occupied, !is_redef (lines 285-300)
ReconcileOverwrite ==
    /\ merge_pc = "pass1"
    /\ LET e == current_entry
           k == actual_key(e.key) IN
        /\ map_contains(preliminary_values, k)
        /\ ~is_redef(e.key)
        /\ LET i == map_pos(preliminary_values, k)
               old == preliminary_values[i] IN
            /\ warnings' = Append(warnings, no_redef_warning(k, old))
            /\ preliminary_values' = [preliminary_values EXCEPT
                   ![i].value = e.value,
                   ![i].source_layer = layer_idx,
                   ![i].source_file = e.file_idx]
    /\ pass1_advance
    /\ UNCHANGED <<final_values, main_idx, default_idx, merge_result>>
    /\ merge_frame

\* a grant that also stores the value written next to the suffixed key
ReconcileRedefTakingValue ==
    /\ merge_pc = "pass1"
    /\ LET e == current_entry
           k == actual_key(e.key) IN
        /\ map_contains(preliminary_values, k)
        /\ is_redef(e.key)
        /\ LET i == map_pos(preliminary_values, k) IN
            preliminary_values' = [preliminary_values EXCEPT
                   ![i].value = e.value,
                   ![i].redef_allowed_by = Some(e.file_idx)]
    /\ pass1_advance
    /\ UNCHANGED <<warnings, final_values, main_idx, default_idx, merge_result>>
    /\ merge_frame

\* Entry::Occupied, is_redef (lines 301-303)
ReconcileRedef ==
    /\ merge_pc = "pass1"
    /\ LET e == current_entry
           k == actual_key(e.key) IN
        /\ map_contains(preliminary_values, k)
        /\ is_redef(e.key)
        /\ LET i == map_pos(preliminary_values, k) IN
            preliminary_values' = [preliminary_values EXCEPT
                   ![i].redef_allowed_by = Some(e.file_idx)]
    /\ pass1_advance
    /\ UNCHANGED <<warnings, final_values, main_idx, default_idx, merge_result>>
    /\ merge_frame

-----------------------------------------------------------------------------
(* merge_config: schema-gated application pass (lines 322-397)             *)

\* a seeding loop that stops one entry early
seed_from_default_short(idx) ==
    [i \in 1..(Len(default_config.values) - 1) |->
        [key |-> default_config.values[i].key,
         value |-> default_config.values[i].value,
         file_idx |-> idx]]

\* lines 329-334: the final map seeded from the default schema
seed_from_default(idx) ==
    [i \in 1..Len(default_config.values) |->
        [key |-> default_config.values[i].key,
         value |-> default_config.values[i].value,
         file_idx |-> idx]]

\* a lookup that forgets `config_dir.join(..)`
main_config_path_relative == MAIN_CONFIG_FILENAME

\* line 322: &config_dir.join(MAIN_CONFIG_FILENAME)
main_config_path == join(config_dir, MAIN_CONFIG_FILENAME)

\* lines 322-334: both `.unwrap()` calls, then the seeding loop
SeedDefaults ==
    /\ merge_pc = "indices"
    /\ LET m == get_index_of(config_files, main_config_path)
           d == get_index_of(config_files, DEFAULT_CONFIG_FILENAME) IN
        IF m = None \/ d = None
        THEN /\ merge_result' = "panic"
             /\ merge_pc' = "done"
             /\ UNCHANGED <<main_idx, default_idx, final_values, entry_pos>>
        ELSE /\ main_idx' = m
             /\ default_idx' = d
             /\ final_values' = seed_from_default(d[1])
             /\ entry_pos' = 1
             /\ merge_pc' = IF Len(preliminary_values) = 0 THEN "return" ELSE "pass2"
             /\ UNCHANGED merge_result
    /\ UNCHANGED <<warnings, preliminary_values, layer_idx>>
    /\ merge_frame

\* lines 340-341
is_newable(key) ==
    starts_with(key, "arcella.custom") \/ starts_with(key, "arcella.modules")

current_preliminary == preliminary_values[entry_pos]

redef_missing_warning(p) ==
    ValueError(p.key,
        "Value from file " \o ToString(p.source_file)
            \o " ignored due to #redef missing in arcella.toml",
        layer_file(p.source_layer))

missing_in_default_warning(p) ==
    ValueError(p.key,
        "Value from layer " \o ToString(p.source_layer)
            \o " ignored due to missing in default config",
        layer_file(p.source_layer))

pass2_advance ==
    /\ entry_pos' = entry_pos + 1
    /\ merge_pc' = IF entry_pos + 1 > Len(preliminary_values) THEN "return" ELSE "pass2"

pass2_frame ==
    /\ UNCHANGED <<preliminary_values, main_idx, default_idx, layer_idx, merge_result>>
    /\ merge_frame

\* an override that stores the value but not its provenance
replace_final_value_only(p) ==
    [final_values EXCEPT ![map_pos(final_values, p.key)].value = p.value]

\* an override tagged with the file that granted it
replace_final_tagged_by_grantor(p) ==
    [final_values EXCEPT ![map_pos(final_values, p.key)] =
        [key |-> p.key, value |-> p.value,
         file_idx |-> IF p.redef_allowed_by = None THEN p.source_file
                      ELSE p.redef_allowed_by[1]]]

\* Entry::Occupied(mut entry) => entry.insert((value, source_file))
replace_final(p) ==
    [final_values EXCEPT ![map_pos(final_values, p.key)] =
        [key |-> p.key, value |-> p.value, file_idx |-> p.source_file]]

\* lines 348-353
ApplyFromMain ==
    /\ merge_pc = "pass2"
    /\ LET p == current_preliminary IN
        /\ map_contains(final_values, p.key)
        /\ Some(p.source_file) = main_idx
        /\ final_values' = replace_final(p)
    /\ pass2_advance
    /\ UNCHANGED warnings
    /\ pass2_frame

\* lines 354-359
ApplyRedefAllowed ==
    /\ merge_pc = "pass2"
    /\ LET p == current_preliminary IN
        /\ map_contains(final_values, p.key)
        /\ Some(p.source_file) # main_idx
        /\ p.redef_allowed_by = main_idx
        /\ final_values' = replace_final(p)
    /\ pass2_advance
    /\ UNCHANGED warnings
    /\ pass2_frame

\* lines 360-372
IgnoreRedefMissing ==
    /\ merge_pc = "pass2"
    /\ LET p == current_preliminary IN
        /\ map_contains(final_values, p.key)
        /\ Some(p.source_file) # main_idx
        /\ p.redef_allowed_by # main_idx
        /\ warnings' = Append(warnings, redef_missing_warning(p))
    /\ pass2_advance
    /\ UNCHANGED final_values
    /\ pass2_frame

\* lines 377-381
InsertNewable ==
    /\ merge_pc = "pass2"
    /\ LET p == current_preliminary IN
        /\ ~map_contains(final_values, p.key)
        /\ is_newable(p.key)
        /\ final_values' = Append(final_values,
               [key |-> p.key, value |-> p.value, file_idx |-> p.source_file])
    /\ pass2_advance
    /\ UNCHANGED warnings
    /\ pass2_frame

IgnoreMissingInDefaultKeepingLast ==
    /\ merge_pc = "pass2"
    /\ LET p == current_preliminary IN
        /\ ~map_contains(final_values, p.key)
        /\ ~is_newable(p.key)
        /\ warnings' = <<missing_in_default_warning(p)>>
    /\ pass2_advance
    /\ UNCHANGED final_values
    /\ pass2_frame

\* lines 382-392
IgnoreMissingInDefault ==
    /\ merge_pc = "pass2"
    /\ LET p == current_preliminary IN
        /\ ~map_contains(final_values, p.key)
        /\ ~is_newable(p.key)
        /\ warnings' = Append(warnings, missing_in_default_warning(p))
    /\ pass2_advance
    /\ UNCHANGED final_values
    /\ pass2_frame

\* line 397: Ok(final_values)
MergeReturn ==
    /\ merge_pc = "return"
    /\ merge_result' = "Ok"
    /\ merge_pc' = "done"
    /\ UNCHANGED <<warnings, preliminary_values, final_values, main_idx,
                   default_idx, layer_idx, entry_pos>>
    /\ merge_frame

MergeNext ==
    \/ MergeEnter
    \/ ReconcileVacant
    \/ ReconcileOverwrite
    \/ ReconcileRedef
    \/ SeedDefaults
    \/ ApplyFromMain
    \/ ApplyRedefAllowed
    \/ IgnoreRedefMissing
    \/ InsertNewable
    \/ IgnoreMissingInDefault
    \/ MergeReturn

-----------------------------------------------------------------------------
(* Inputs of merge_config as load() hands them over (lines 176-209)        *)

TomlFileData(includes, values) == [includes |-> includes, values |-> values]

RawKeys ==
    {"arcella.log.level", "arcella.log.level#redef", "arcella.custom.message",
     "arcella.modules.m1.enabled", "arcella.server.unknown_option",
     "arcella.customer.x"}

DefaultSchemas ==
    {<<>>,
     <<"arcella.log.level">>,
     <<"arcella.log.level", "arcella.custom.message">>}

\* file names of the loaded layers, primary file first, and the value each
\* layer writes (as in the unit tests, lines 428-453 and 582-608)
LayerFiles == <<MAIN_CONFIG_FILENAME, "level_1.toml", "level_2.toml">>
LayerValues == <<"warn", "debug", "trace">>
\* the value each layer writes next to a key that carries the suffix
RedefValues == <<"error", "off", "all">>

layer_value(k) == make_toml_value(LayerValues[k + 1])
redef_value(k) == make_toml_value(RedefValues[k + 1])
layer_path(k) == join(config_dir, LayerFiles[k + 1])

\* the entries of layer k among a flat list of <<layer, raw key>> pairs,
\* tagged with the index the loader gave the file (default 0, primary 1, ...)
layer_values(flat, k) ==
    LET mine == SelectSeq(flat, LAMBDA e : e[1] = k) IN
    [i \in 1..Len(mine) |->
        [key |-> mine[i][2],
         value |-> IF is_redef(mine[i][2]) THEN redef_value(k) ELSE layer_value(k),
         file_idx |-> k + 1]]

\* warnings already in state.warnings when merge_config is called
EntryWarnings ==
    {<<>>, <<Internal("Created default config at config/arcella.toml")>>}

MergeInit ==
    \E n \in 1..Len(LayerFiles), m \in 0..MaxEntries, dk \in DefaultSchemas,
       w0 \in EntryWarnings :
      \E flat \in [1..m -> (0..(n - 1)) \X RawKeys] :
        /\ \A i, j \in 1..m : i < j => /\ flat[i][1] <= flat[j][1]
                                       /\ flat[i] # flat[j]
        /\ default_config = TomlFileData(<<>>,
              [i \in 1..Len(dk) |->
                 [key |-> dk[i], value |-> make_toml_value("info"), file_idx |-> 0]])
        /\ configs = [k \in 1..n |-> TomlFileData(<<>>, layer_values(flat, k - 1))]
        /\ config_files = <<DEFAULT_CONFIG_FILENAME>> \o [k \in 1..n |-> layer_path(k - 1)]
        /\ warnings = w0
        /\ entry_warnings = Len(w0)
        /\ preliminary_values = <<>>
        /\ final_values = <<>>
        /\ main_idx = None
        /\ default_idx = None
        /\ merge_pc = "enter"
        /\ layer_idx = -1
        /\ entry_pos = 0
        /\ merge_result = "none"
        /\ fs = <<>>
        /\ visited_paths = {layer_path(k - 1) : k \in 1..n}
        /\ stack = <<>>
        /\ load_status = "Ok"
        /\ load_error = None
        /\ load_configs = configs
        /\ read_log = [k \in 1..n |-> layer_path(k - 1)]
        /\ parse_log = [k \in 1..n |-> layer_path(k - 1)]
        /\ load_runs = 0
        /\ RestIdle

SpecMerge == MergeInit /\ [][MergeNext]_vars

-----------------------------------------------------------------------------
(* Paths and the inclusion resolver (arcella-fs-utils/src/lib.rs)          *)

\* the characters of the modelled paths, in ASCII order
Chars == "./0123456789ABCDEFGHIJKLMNOPQRSTUVWXYZ_abcdefghijklmnopqrstuvwxyz"
UpperChars == "ABCDEFGHIJKLMNOPQRSTUVWXYZ"
LowerChars == "abcdefghijklmnopqrstuvwxyz"

char_at(s, i) == SubSeq(s, i, i)
\* the position of a character in that order, as a table
rank_of ==
    [c \in {char_at(Chars, i) : i \in 1..Len(Chars)} |->
        CHOOSE i \in 1..Len(Chars) : char_at(Chars, i) = c]
char_rank(c) == rank_of[c]

\* the first position from i on where the strings differ, 0 when one ends
\* before they do
RECURSIVE first_diff_from(_, _, _)
first_diff_from(a, b, i) ==
    IF i > Len(a) \/ i > Len(b) THEN 0
    ELSE IF char_at(a, i) # char_at(b, i) THEN i
    ELSE first_diff_from(a, b, i + 1)

\* byte-wise lexicographic order of strings (str: Ord)
str_lt(a, b) ==
    \E d \in {first_diff_from(a, b, 1)} :
        IF d = 0 THEN Len(a) < Len(b)
        ELSE char_rank(char_at(a, d)) < char_rank(char_at(b, d))

\* char::to_ascii_lowercase, as a table
lower_of ==
    [c \in {char_at(UpperChars, i) : i \in 1..Len(UpperChars)} |->
        char_at(LowerChars, CHOOSE i \in 1..Len(UpperChars) : char_at(UpperChars, i) = c)]

to_lower_char(c) == IF c \in DOMAIN lower_of THEN lower_of[c] ELSE c

\* str::to_lowercase, character by character from position i on
RECURSIVE to_lowercase_from(_, _)
to_lowercase_from(s, i) ==
    IF i > Len(s) THEN ""
    ELSE to_lower_char(char_at(s, i)) \o to_lowercase_from(s, i + 1)

to_lowercase(s) == only({to_lowercase_from(t, 1) : t \in {s}})

\* position of the last occurrence of the character c in s, 0 when absent
\* (str::rfind, scanning from the end)
RECURSIVE rfind_from(_, _, _)
rfind_from(s, c, i) ==
    IF i = 0 THEN 0
    ELSE IF char_at(s, i) = c THEN i
    ELSE rfind_from(s, c, i - 1)

last_index_of(s, c) == only({rfind_from(t, c, Len(t)) : t \in {s}})

\* Path::file_name and Path::parent of a path written with '/'
file_name(path) == SubSeq(path, last_index_of(path, "/") + 1, Len(path))
parent(path) ==
    LET slash == last_index_of(path, "/")
    IN  IF slash = 0 THEN "" ELSE SubSeq(path, 1, slash - 1)

\* Path::components: the texts between the separators
components(path) ==
    only({[k \in 1..(Cardinality(slashes) + 1) |->
              SubSeq(path,
                     IF k = 1 THEN 1
                     ELSE 1 + only({i \in slashes :
                                      Cardinality({j \in slashes : j < i}) = k - 2}),
                     IF k = Cardinality(slashes) + 1 THEN Len(path)
                     ELSE only({i \in slashes :
                                  Cardinality({j \in slashes : j < i}) = k - 1}) - 1)]
          : slashes \in {{i \in 1..Len(path) : char_at(path, i) = "/"}}})

\* Path: Ord compares the components one by one
path_lt(p, q) ==
    \E a \in {components(p)}, b \in {components(q)} :
        \E diff \in {{i \in 1..min(Len(a), Len(b)) : a[i] # b[i]}} :
            IF diff = {}
            THEN Len(a) < Len(b)
            ELSE \E d \in diff : (\A j \in diff : d <= j) /\ str_lt(a[d], b[d])

\* Path::extension: the text after the last '.' that is not the first
\* character of the file name; None without one
extension(path) ==
    only({only({IF dot <= 1 THEN None ELSE Some(SubSeq(f, dot + 1, Len(f)))
                : dot \in {last_index_of(f, ".")}})
          : f \in {file_name(path)}})

Path_is_absolute(pattern) == starts_with(pattern, "/")

\* types.rs line 25
TEMPLATE_TOML_SUFFIX == ".template.toml"

\* lib.rs lines 155-176
is_valid_toml_file_path(path) ==
    \E ext \in {extension(path)}, name \in {to_lowercase(file_name(path))} :
        /\ ext # None
        /\ to_lowercase(ext[1]) = "toml"
        /\ ~ends_with(name, TEMPLATE_TOML_SUFFIX)

\* lib.rs lines 122-138
resolve_include_paths(includes, parent_dir) ==
    {IF Path_is_absolute(includes[i]) THEN includes[i] ELSE join(parent_dir, includes[i])
        : i \in 1..Len(includes)}

Path_is_file(path) == path \in DOMAIN fs /\ fs[path].kind = "file"
Path_is_dir(path) == path \in DOMAIN fs /\ fs[path].kind = "dir"

\* lib.rs lines 194-231, as the set of paths found (its order is redone by
\* collect_includes)
find_toml_files_in_dir(dir_path) ==
    {q \in DOMAIN fs : /\ parent(q) = dir_path
                       /\ ~Path_is_dir(q)
                       /\ is_valid_toml_file_path(q)}

sorted_paths_ignoring_case(S) ==
    only({[i \in 1..Cardinality(T) |->
              CHOOSE x \in T :
                  Cardinality({y \in T :
                      \/ path_lt(to_lowercase(y), to_lowercase(x))
                      \/ to_lowercase(y) = to_lowercase(x) /\ path_lt(y, x)}) = i - 1]
          : T \in {S}})

\* Vec::sort of a set of paths: the i-th path has i - 1 paths before it
sorted_paths(S) ==
    only({[i \in 1..Cardinality(T) |->
              CHOOSE x \in T : Cardinality({y \in T : path_lt(y, x)}) = i - 1]
          : T \in {S}})

collect_includes_keeping_missing(includes, dir) ==
    sorted_paths({q \in resolve_include_paths(includes, dir) :
                     ~Path_is_dir(q) /\ (Path_is_file(q) => is_valid_toml_file_path(q))}
                 \cup UNION {find_toml_files_in_dir(d) :
                               d \in {q \in resolve_include_paths(includes, dir) : Path_is_dir(q)}})

\* lib.rs lines 254-312
collect_includes(includes, dir) ==
    LET all_paths == resolve_include_paths(includes, dir)
        include_files == {q \in all_paths : Path_is_file(q)}
        include_dirs == {q \in all_paths : ~Path_is_file(q) /\ Path_is_dir(q)}
        collected_files == {q \in include_files : is_valid_toml_file_path(q)}
        scanned == UNION {find_toml_files_in_dir(d) : d \in include_dirs}
    IN  sorted_paths(collected_files \cup scanned)

\* the resolved include paths that collect_toml_includes skips with a
\* SkippedInvalidFile warning: neither a directory nor a valid TOML file
skipped_paths(includes, dir) ==
    {q \in resolve_include_paths(includes, dir) :
        /\ ~Path_is_dir(q)
        /\ ~(Path_is_file(q) /\ is_valid_toml_file_path(q))}

-----------------------------------------------------------------------------
(* The recursive loader (arcella-fs-utils/src/config_loader.rs)            *)

MAX_CONFIG_DEPTH == 5

\* parameters whose base directory is the directory of the file being loaded
params_beside_including_file ==
    [prefix |-> <<"arcella">>,
     config_dir |-> IF stack = <<>> THEN config_dir
                    ELSE parent(stack[Len(stack)].include_paths[stack[Len(stack)].pos])]

\* ConfigLoadParams of load() (config/mod.rs lines 192-195)
params == [prefix |-> <<"arcella">>, config_dir |-> config_dir]

MaxDepthReached(path) == [type |-> "MaxDepthReached", path |-> path]
DuplicateIncludeWarning(path, included_from) ==
    [type |-> "DuplicateInclude", path |-> path, included_from |-> included_from]
SkippedInvalidFile(path) == [type |-> "SkippedInvalidFile", path |-> path]
Pruned(path) == [type |-> "Pruned", path |-> path]
NullValueDetected(key, file) == [type |-> "NullValueDetected", key |-> key, file |-> file]

IoWithPath(path) == [type |-> "IoWithPath", path |-> path]
\* TOML(String): the parser's message is not modelled
TomlError == [type |-> "TOML"]

\* the call of load_config_recursive that runs next: the root call of
\* load_config_recursive_from_file (lines 230-236), or the call made by the
\* innermost active loop over include_paths (lines 198-206)
has_call ==
    \/ load_status = "idle"
    \/ /\ load_status = "running"
       /\ stack # <<>>
       /\ stack[Len(stack)].pos <= Len(stack[Len(stack)].include_paths)

call ==
    IF load_status = "idle"
    THEN [config_file_path |-> join(config_dir, MAIN_CONFIG_FILENAME),
          included_from |-> None, current_depth |-> 0]
    ELSE LET top == stack[Len(stack)] IN
         [config_file_path |-> top.include_paths[top.pos],
          included_from |-> Some(top.config_file_path),
          current_depth |-> top.current_depth + 1]

\* the caller receives Ok(vec![]) (lines 208-209 with an empty sub_configs);
\* for the root call the whole load returns Ok(vec![])
return_empty ==
    IF stack = <<>>
    THEN /\ load_status' = "Ok"
         /\ load_configs' = <<>>
         /\ UNCHANGED stack
    ELSE /\ stack' = [stack EXCEPT ![Len(stack)].pos = @ + 1]
         /\ load_status' = "running"
         /\ UNCHANGED load_configs

\* `?` all the way up: every active call returns the Err
return_err(e) ==
    /\ stack' = <<>>
    /\ load_status' = "Err"
    /\ load_error' = Some(e)
    /\ UNCHANGED load_configs

load_frame == UNCHANGED <<fs, merge_vars_but_state, rest_vars, load_runs>>

\* the guard of line 96
depth_exceeded_at_limit(current_depth) == current_depth >= MAX_CONFIG_DEPTH
depth_exceeded(current_depth) == current_depth > MAX_CONFIG_DEPTH

DepthExceededRegistering ==
    /\ has_call
    /\ depth_exceeded(call.current_depth)
    /\ warnings' = Append(warnings, MaxDepthReached(call.config_file_path))
    /\ visited_paths' = visited_paths \cup {call.config_file_path}
    /\ config_files' = IF get_index_of(config_files, call.config_file_path) # None
                       THEN config_files
                       ELSE Append(config_files, call.config_file_path)
    /\ return_empty
    /\ UNCHANGED <<load_error, read_log, parse_log>>
    /\ load_frame

\* lines 96-101
DepthExceeded ==
    /\ has_call
    /\ depth_exceeded(call.current_depth)
    /\ warnings' = Append(warnings, MaxDepthReached(call.config_file_path))
    /\ return_empty
    /\ UNCHANGED <<visited_paths, config_files, load_error, read_log, parse_log>>
    /\ load_frame

DuplicateIncludeSilent ==
    /\ has_call
    /\ ~depth_exceeded(call.current_depth)
    /\ call.config_file_path \in visited_paths
    /\ return_empty
    /\ UNCHANGED <<visited_paths, config_files, warnings, load_error, read_log, parse_log>>
    /\ load_frame

\* lines 104-111
DuplicateInclude ==
    /\ has_call
    /\ ~depth_exceeded(call.current_depth)
    /\ call.config_file_path \in visited_paths
    /\ warnings' = Append(warnings,
          DuplicateIncludeWarning(call.config_file_path,
              IF call.included_from = None THEN call.config_file_path
              ELSE call.included_from[1]))
    /\ return_empty
    /\ UNCHANGED <<visited_paths, config_files, load_error, read_log, parse_log>>
    /\ load_frame

\* tokio::fs::read_to_string succeeds on a readable regular file
read_ok(path) == Path_is_file(path) /\ fs[path].readable

will_read_ignoring_visited ==
    /\ has_call
    /\ ~depth_exceeded(call.current_depth)

\* the alternative of line 136: a path counts as known only while the call
\* that loaded it is active
will_read_unless_active ==
    /\ has_call
    /\ ~depth_exceeded(call.current_depth)
    /\ \A k \in 1..Len(stack) : stack[k].config_file_path # call.config_file_path

will_read ==
    /\ has_call
    /\ ~depth_exceeded(call.current_depth)
    /\ call.config_file_path \notin visited_paths

insert_full_index_among_visited(set, path) == Cardinality(visited_paths)

\* IndexSet::insert_full: the index of the path, appended when new
insert_full_index(set, path) ==
    IF get_index_of(set, path) # None THEN get_index_of(set, path)[1] ELSE Len(set)
insert_full_set(set, path) ==
    IF get_index_of(set, path) # None THEN set ELSE Append(set, path)

ReadFailedAfterInsert ==
    /\ will_read
    /\ ~read_ok(call.config_file_path)
    /\ read_log' = Append(read_log, call.config_file_path)
    /\ visited_paths' = visited_paths \cup {call.config_file_path}
    /\ config_files' = insert_full_set(config_files, call.config_file_path)
    /\ return_err(IoWithPath(call.config_file_path))
    /\ UNCHANGED <<warnings, parse_log>>
    /\ load_frame

\* lines 116-121, the read fails
ReadFailed ==
    /\ will_read
    /\ ~read_ok(call.config_file_path)
    /\ read_log' = Append(read_log, call.config_file_path)
    /\ return_err(IoWithPath(call.config_file_path))
    /\ UNCHANGED <<visited_paths, config_files, warnings, parse_log>>
    /\ load_frame

\* toml.rs lines 390-397, on a document given by its traversal outcome: the
\* keys get the prefix and every value the caller's file_idx
parse_and_collect(content, prefix, file_idx) ==
    IF ~content.parse_ok THEN [ok |-> FALSE]
    ELSE [ok |-> TRUE,
          config |-> TomlFileData(content.includes,
              [i \in 1..Len(content.values) |->
                  [key |-> prefix[1] \o "." \o content.values[i].key,
                   value |-> content.values[i].value,
                   file_idx |-> file_idx]]),
          result |-> IF content.pruned THEN "Pruned" ELSE "Full"]

ParseFailedUnregistered ==
    /\ will_read
    /\ read_ok(call.config_file_path)
    /\ LET path == call.config_file_path
           file_idx == insert_full_index(config_files, path) IN
        /\ ~parse_and_collect(fs[path].content, params.prefix, file_idx).ok
        /\ read_log' = Append(read_log, path)
        /\ parse_log' = Append(parse_log, path)
        /\ return_err(TomlError)
    /\ UNCHANGED <<warnings, visited_paths, config_files>>
    /\ load_frame

\* lines 116-125 and 168, the content does not parse
ParseFailed ==
    /\ will_read
    /\ read_ok(call.config_file_path)
    /\ LET path == call.config_file_path
           file_idx == insert_full_index(config_files, path) IN
        /\ ~parse_and_collect(fs[path].content, params.prefix, file_idx).ok
        /\ read_log' = Append(read_log, path)
        /\ parse_log' = Append(parse_log, path)
        /\ visited_paths' = visited_paths \cup {path}
        /\ config_files' = insert_full_set(config_files, path)
        /\ return_err(TomlError)
    /\ UNCHANGED warnings
    /\ load_frame

\* warnings of lines 169-184
content_warnings(config, result, path) ==
    (IF result = "Pruned" THEN <<Pruned(path)>> ELSE <<>>)
    \o LET nulls == SelectSeq(config.values, LAMBDA v : v.value.variant = "Null")
       IN  [i \in 1..Len(nulls) |-> NullValueDetected(nulls[i].key, path)]

\* the orders in which a set can be walked
orderings(S) ==
    {q \in [1..Cardinality(S) -> S] : \A i, j \in 1..Cardinality(S) : q[i] = q[j] => i = j}

\* lines 116-134 and 168-195: the file is read, registered and parsed, its
\* warnings are pushed, its includes are resolved and the loop over them starts
LoadFile ==
    /\ will_read
    /\ read_ok(call.config_file_path)
    /\ LET path == call.config_file_path
           file_idx == insert_full_index(config_files, path)
           parsed == parse_and_collect(fs[path].content, params.prefix, file_idx) IN
        /\ parsed.ok
        /\ read_log' = Append(read_log, path)
        /\ parse_log' = Append(parse_log, path)
        /\ visited_paths' = visited_paths \cup {path}
        /\ config_files' = insert_full_set(config_files, path)
        /\ \E skipped \in orderings(skipped_paths(parsed.config.includes, params.config_dir)) :
              warnings' = warnings
                  \o content_warnings(parsed.config, parsed.result, path)
                  \o [i \in 1..Len(skipped) |-> SkippedInvalidFile(skipped[i])]
        /\ stack' = Append(stack,
              [config_file_path |-> path,
               current_depth |-> call.current_depth,
               include_paths |-> collect_includes(parsed.config.includes, params.config_dir),
               pos |-> 1,
               all_configs |-> <<parsed.config>>])
        /\ load_status' = "running"
    /\ UNCHANGED <<load_error, load_configs>>
    /\ load_frame

ReturnConfigsPrepended ==
    /\ load_status = "running"
    /\ stack # <<>>
    /\ LET n == Len(stack)
           top == stack[n] IN
        /\ top.pos > Len(top.include_paths)
        /\ IF n = 1
           THEN /\ stack' = <<>>
                /\ load_status' = "Ok"
                /\ load_configs' = top.all_configs
           ELSE /\ stack' = [SubSeq(stack, 1, n - 1) EXCEPT
                       ![n - 1].all_configs = top.all_configs \o @,
                       ![n - 1].pos = @ + 1]
                /\ UNCHANGED <<load_status, load_configs>>
    /\ UNCHANGED <<visited_paths, config_files, warnings, load_error, read_log, parse_log>>
    /\ load_frame

\* line 212 and lines 208-209 of the caller: Ok(all_configs) is appended to
\* the caller's all_configs; the root call returns it to the entry point
ReturnConfigs ==
    /\ load_status = "running"
    /\ stack # <<>>
    /\ LET n == Len(stack)
           top == stack[n] IN
        /\ top.pos > Len(top.include_paths)
        /\ IF n = 1
           THEN /\ stack' = <<>>
                /\ load_status' = "Ok"
                /\ load_configs' = top.all_configs
           ELSE /\ stack' = [SubSeq(stack, 1, n - 1) EXCEPT
                       ![n - 1].all_configs = @ \o top.all_configs,
                       ![n - 1].pos = @ + 1]
                /\ UNCHANGED <<load_status, load_configs>>
    /\ UNCHANGED <<visited_paths, config_files, warnings, load_error, read_log, parse_log>>
    /\ load_frame

LoadNext ==
    \/ DepthExceeded
    \/ DuplicateInclude
    \/ ReadFailed
    \/ ParseFailed
    \/ LoadFile
    \/ ReturnConfigs

-----------------------------------------------------------------------------
(* TOML traversal (arcella-fs-utils/src/toml.rs)                           *)

MAX_TOML_DEPTH == 10
INCLUDES_KEY == "includes"

\* toml_edit::Value, as far as the traversal tells its cases apart
TomlString(s) == [type |-> "String", s |-> s]
TomlInteger(i) == [type |-> "Integer", i |-> i]
TomlBoolean(b) == [type |-> "Boolean", b |-> b]
TomlDatetime == [type |-> "Datetime"]
TomlArray(elems) == [type |-> "Array", elems |-> elems]
TomlInlineTable(entries) == [type |-> "InlineTable", entries |-> entries]

\* toml_edit::Item; a table is the list of its (key, item) pairs in
\* iteration order
ItemValue(value) == [item |-> "Value", value |-> value]
ItemTable(entries) == [item |-> "Table", entries |-> entries]
ItemArrayOfTables(tables) == [item |-> "ArrayOfTables", tables |-> tables]
ItemNone == [item |-> "None"]
entry(key, item) == [key |-> key, item |-> item]

\* arcella_types::config::Value
Integer(i) == [variant |-> "Integer", i |-> i]
Null == [variant |-> "Null"]
Boolean(b) == [variant |-> "Boolean", b |-> b]
Array(elems) == [variant |-> "Array", elems |-> elems]
Map(map) == [variant |-> "Map", map |-> map]

\* lines 73-96
RECURSIVE from_toml_value(_)
from_toml_value_coercing(value) ==
    CASE value.type = "String" -> [ok |-> TRUE, value |-> make_toml_value(value.s)]
      [] value.type = "Integer" -> [ok |-> TRUE, value |-> Integer(value.i)]
      [] value.type = "Boolean" -> [ok |-> TRUE, value |-> Boolean(value.b)]
      [] value.type = "Array" ->
            [ok |-> TRUE,
             value |-> Array([i \in 1..Len(value.elems) |-> from_toml_value(value.elems[i]).value])]
      [] OTHER -> [ok |-> TRUE, value |-> make_toml_value("datetime")]

from_toml_value(value) ==
    CASE value.type = "String" -> [ok |-> TRUE, value |-> make_toml_value(value.s)]
      [] value.type = "Integer" -> [ok |-> TRUE, value |-> Integer(value.i)]
      [] value.type = "Boolean" -> [ok |-> TRUE, value |-> Boolean(value.b)]
      [] value.type = "Array" ->
            LET inner_values == [i \in 1..Len(value.elems) |-> from_toml_value(value.elems[i])]
            IN  IF \E i \in 1..Len(inner_values) : ~inner_values[i].ok
                THEN [ok |-> FALSE, error |-> TomlError]
                ELSE [ok |-> TRUE,
                      value |-> Array([i \in 1..Len(inner_values) |-> inner_values[i].value])]
      [] OTHER -> [ok |-> FALSE, error |-> TomlError]

\* lines 102-108
inline_table_to_table(inline) == ItemTable(inline.entries)

\* [String]::join(".")
RECURSIVE join_dot(_)
join_dot(path) ==
    IF Len(path) = 0 THEN ""
    ELSE IF Len(path) = 1 THEN path[1]
    ELSE path[1] \o "." \o join_dot(Tail(path))

\* IndexMap::insert: a known key keeps its place and gets the new value
values_insert(values, key, value, file_idx) ==
    IF map_contains(values, key)
    THEN [values EXCEPT ![map_pos(values, key)] =
              [key |-> key, value |-> value, file_idx |-> file_idx]]
    ELSE Append(values, [key |-> key, value |-> value, file_idx |-> file_idx])

included_strings_of_arrays(item) ==
    IF item.item = "Value" /\ item.value.type = "Array"
    THEN LET strings == SelectSeq(item.value.elems, LAMBDA elem : elem.type = "String")
         IN  [i \in 1..Len(strings) |-> strings[i].s]
    ELSE <<>>

\* the strings an `includes` item contributes (lines 181-200)
included_strings(item) ==
    IF item.item # "Value" THEN <<>>
    ELSE IF item.value.type = "Array"
    THEN LET strings == SelectSeq(item.value.elems, LAMBDA elem : elem.type = "String")
         IN  [i \in 1..Len(strings) |-> strings[i].s]
    ELSE IF item.value.type = "String" THEN <<item.value.s>>
    ELSE <<>>

traversed(result, includes, values) ==
    [ok |-> TRUE, result |-> result, includes |-> includes, values |-> values]

RECURSIVE collect_paths_recursive(_, _, _, _, _, _)
RECURSIVE table_loop(_, _, _, _, _, _, _, _)
RECURSIVE array_of_tables_loop(_, _, _, _, _, _, _)

table_loop_stopping_at_pruned(entries, i, current_path, file_idx, includes, values, depth, result) ==
    IF i > Len(entries) \/ result = "Pruned" THEN traversed(result, includes, values)
    ELSE IF entries[i].key = INCLUDES_KEY
    THEN table_loop(entries, i + 1, current_path, file_idx,
                    includes \o included_strings(entries[i].item), values, depth, result)
    ELSE LET child_result ==
                 collect_paths_recursive(entries[i].item, Append(current_path, entries[i].key),
                                         file_idx, includes, values, depth + 1)
         IN  IF ~child_result.ok THEN child_result
             ELSE table_loop(entries, i + 1, current_path, file_idx,
                             child_result.includes, child_result.values, depth,
                             IF child_result.result = "Pruned" THEN "Pruned" ELSE result)

\* the loop of lines 176-224 from entry i on
table_loop(entries, i, current_path, file_idx, includes, values, depth, result) ==
    IF i > Len(entries) THEN traversed(result, includes, values)
    ELSE IF entries[i].key = INCLUDES_KEY
    THEN table_loop(entries, i + 1, current_path, file_idx,
                    includes \o included_strings(entries[i].item), values, depth, result)
    ELSE LET child_result ==
                 collect_paths_recursive(entries[i].item, Append(current_path, entries[i].key),
                                         file_idx, includes, values, depth + 1)
         IN  IF ~child_result.ok THEN child_result
             ELSE table_loop(entries, i + 1, current_path, file_idx,
                             child_result.includes, child_result.values, depth,
                             IF child_result.result = "Pruned" THEN "Pruned" ELSE result)

\* lines 167-227
table_to_value_map_recursive(table, current_path, file_idx, includes, values, depth) ==
    IF depth > MAX_TOML_DEPTH THEN traversed("Pruned", includes, values)
    ELSE table_loop(table.entries, 1, current_path, file_idx, includes, values, depth, "Full")

element_map_with_index(temp_values) ==
    Map([k \in {"0." \o key : key \in map_keys(temp_values)} |->
            map_get(temp_values, SubSeq(k, 3, Len(k))).value])

\* the Map of one element: its collected values without their file index
\* (lines 145-148)
element_map(temp_values) ==
    Map([k \in map_keys(temp_values) |-> map_get(temp_values, k).value])

\* the loop of lines 129-154 from table i on
array_of_tables_loop(tables, i, depth, file_idx, includes, result_vec, overall_result) ==
    IF i > Len(tables)
    THEN [ok |-> TRUE, value |-> Array(result_vec), result |-> overall_result,
          includes |-> includes]
    ELSE LET child_result ==
                 table_to_value_map_recursive(tables[i], <<>>, file_idx, <<>>, <<>>, depth + 1)
         IN  IF ~child_result.ok THEN child_result
             ELSE array_of_tables_loop(tables, i + 1, depth, file_idx,
                      includes \o child_result.includes,
                      Append(result_vec, element_map(child_result.values)),
                      IF child_result.result = "Pruned" THEN "Pruned" ELSE overall_result)

\* lines 116-157
convert_array_of_tables_to_value(arr, depth, file_idx, includes) ==
    IF depth > MAX_TOML_DEPTH
    THEN [ok |-> TRUE, value |-> Array(<<>>), result |-> "Pruned", includes |-> includes]
    ELSE array_of_tables_loop(arr.tables, 1, depth, file_idx, includes, <<>>, "Full")

\* a traversal that prunes one level early
collect_paths_recursive_pruning_early(item, current_path, file_idx, includes, values, depth) ==
    IF depth >= MAX_TOML_DEPTH THEN traversed("Pruned", includes, values)
    ELSE CASE item.item = "Value" /\ item.value.type = "InlineTable" ->
                table_to_value_map_recursive(inline_table_to_table(item.value), current_path,
                                             file_idx, includes, values, depth)
           [] item.item = "Table" ->
                table_to_value_map_recursive(item, current_path, file_idx, includes, values, depth)
           [] item.item = "ArrayOfTables" ->
                LET converted == convert_array_of_tables_to_value(item, depth, file_idx, includes)
                IN  IF ~converted.ok THEN converted
                    ELSE traversed(converted.result, converted.includes,
                                   values_insert(values, join_dot(current_path),
                                                 converted.value, file_idx))
           [] item.item = "Value" /\ item.value.type # "InlineTable" ->
                LET converted == from_toml_value(item.value)
                IN  IF ~converted.ok THEN converted
                    ELSE traversed("Full", includes,
                                   values_insert(values, join_dot(current_path),
                                                 converted.value, file_idx))
           [] item.item = "None" ->
                traversed("Full", includes,
                          values_insert(values, join_dot(current_path), Null, file_idx))

\* lines 271-326
collect_paths_recursive(item, current_path, file_idx, includes, values, depth) ==
    IF depth > MAX_TOML_DEPTH THEN traversed("Pruned", includes, values)
    ELSE CASE item.item = "Value" /\ item.value.type = "InlineTable" ->
                table_to_value_map_recursive(inline_table_to_table(item.value), current_path,
                                             file_idx, includes, values, depth)
           [] item.item = "Table" ->
                table_to_value_map_recursive(item, current_path, file_idx, includes, values, depth)
           [] item.item = "ArrayOfTables" ->
                LET converted == convert_array_of_tables_to_value(item, depth, file_idx, includes)
                IN  IF ~converted.ok THEN converted
                    ELSE traversed(converted.result, converted.includes,
                                   values_insert(values, join_dot(current_path),
                                                 converted.value, file_idx))
           [] item.item = "Value" /\ item.value.type # "InlineTable" ->
                LET converted == from_toml_value(item.value)
                IN  IF ~converted.ok THEN converted
                    ELSE traversed("Full", includes,
                                   values_insert(values, join_dot(current_path),
                                                 converted.value, file_idx))
           [] item.item = "None" ->
                traversed("Full", includes,
                          values_insert(values, join_dot(current_path), Null, file_idx))

\* lines 335-339: a text either parses to its document or is not valid TOML
parse(content) ==
    IF content.valid THEN [ok |-> TRUE, doc |-> content.doc]
    ELSE [ok |-> FALSE, error |-> TomlError]

\* a collection that starts from the empty path whatever the prefix
collect_paths_from_root(doc, prefix, file_idx) ==
    LET result == collect_paths_recursive(doc, <<>>, file_idx, <<>>, <<>>, 0)
    IN  IF ~result.ok THEN result
        ELSE [ok |-> TRUE, config |-> TomlFileData(result.includes, result.values),
              result |-> result.result]

\* lines 357-373
collect_paths(doc, prefix, file_idx) ==
    LET result == collect_paths_recursive(doc, prefix, file_idx, <<>>, <<>>, 0)
    IN  IF ~result.ok THEN result
        ELSE [ok |-> TRUE, config |-> TomlFileData(result.includes, result.values),
              result |-> result.result]

\* lines 390-397, on the text of a file
parse_and_collect_text(content, prefix, file_idx) ==
    LET doc == parse(content)
    IN  IF ~doc.ok THEN doc ELSE collect_paths(doc.doc, prefix, file_idx)




-----------------------------------------------------------------------------
(* Documents given to parse_and_collect: a chain of nested tables s1.s2...  *)
(* of any length up to MaxNest, one link of which may be an inline table or *)
(* an array of tables, with entries at its bottom and around it at the root *)

MaxNest == 12

\* [[servers]] name = "a" / [[servers]] name = "b" with an includes key, a
\* table and an array of tables of its own
Servers ==
    ItemArrayOfTables(<<
        ItemTable(<<entry("name", ItemValue(TomlString("a")))>>),
        ItemTable(<<entry("name", ItemValue(TomlString("b"))),
                    entry(INCLUDES_KEY, ItemValue(TomlString("s.toml"))),
                    entry("opts", ItemTable(<<entry("x", ItemValue(TomlInteger(1)))>>)),
                    entry("backends", ItemArrayOfTables(<<
                        ItemTable(<<entry("host", ItemValue(TomlString("h")))>>)>>))>>)>>)

\* the entries at the bottom of the chain
BottomEntries ==
    {<<>>,
     <<entry("port", ItemValue(TomlInteger(1)))>>,
     <<entry("name", ItemValue(TomlString("a"))), entry("port", ItemValue(TomlInteger(1)))>>,
     <<entry(INCLUDES_KEY, ItemValue(TomlString("x.toml"))),
       entry("port", ItemValue(TomlInteger(1)))>>,
     <<entry(INCLUDES_KEY, ItemValue(TomlArray(
           <<TomlString("a.toml"), TomlInteger(7), TomlString("b.toml")>>))),
       entry("name", ItemValue(TomlString("a")))>>,
     <<entry(INCLUDES_KEY, ItemValue(TomlInteger(3)))>>,
     <<entry(INCLUDES_KEY, ItemTable(<<entry("k", ItemValue(TomlInteger(1)))>>))>>,
     <<entry(INCLUDES_KEY, ItemArrayOfTables(
           <<ItemTable(<<entry("name", ItemValue(TomlString("a")))>>)>>))>>,
     <<entry(INCLUDES_KEY, ItemValue(TomlDatetime)), entry("port", ItemValue(TomlInteger(1)))>>,
     <<entry("when", ItemValue(TomlDatetime))>>,
     <<entry("port", ItemValue(TomlInteger(1))),
       entry("list", ItemValue(TomlArray(<<TomlInteger(1), TomlDatetime>>)))>>,
     <<entry("list", ItemValue(TomlArray(
           <<TomlInteger(1), TomlArray(<<TomlInteger(2), TomlString("x")>>)>>))),
       entry("flag", ItemValue(TomlBoolean(TRUE)))>>,
     <<entry("opts", ItemValue(TomlInlineTable(
           <<entry("x", ItemValue(TomlInteger(1))),
             entry(INCLUDES_KEY, ItemValue(TomlString("i.toml")))>>)))>>,
     <<entry("servers", Servers)>>,
     <<entry("nil", ItemNone)>>}

\* the entries of the root before and after the chain
RootBefore == {<<>>, <<entry("first", ItemValue(TomlInteger(0)))>>}
RootAfter ==
    {<<>>,
     <<entry("last", ItemValue(TomlInteger(9)))>>,
     <<entry("stamp", ItemValue(TomlDatetime))>>,
     <<entry("last", ItemValue(TomlInteger(9))),
       entry(INCLUDES_KEY, ItemValue(TomlString("z.toml")))>>}

LinkKinds == {"InlineTable", "ArrayOfTables"}

segment(i) == "s" \o ToString(i)

\* link i of the chain, holding the given entries
link(i, special, entries) ==
    IF special # None /\ special[1][1] = i
    THEN IF special[1][2] = "InlineTable"
         THEN ItemValue(TomlInlineTable(entries))
         ELSE ItemArrayOfTables(<<ItemTable(entries)>>)
    ELSE ItemTable(entries)

\* the entries of the table at level i - 1 of a chain of n links
RECURSIVE chain_entries(_, _, _, _)
chain_entries(i, n, special, bottom) ==
    IF i > n THEN bottom
    ELSE <<entry(segment(i), link(i, special, chain_entries(i + 1, n, special, bottom)))>>

document(n, special, bottom, before, after) ==
    ItemTable(before \o chain_entries(1, n, special, bottom) \o after)

\* no table of a TOML document has two entries with one key
distinct_keys(entries) ==
    \A i, j \in 1..Len(entries) : entries[i].key = entries[j].key => i = j

-----------------------------------------------------------------------------
(* The configuration directory a load starts from                          *)

\* the primary file and the files it can reach one after the other (as
\* test_load_config_recursive_depth_limit builds them, lines 390-395)
ChainFiles ==
    <<MAIN_CONFIG_FILENAME, "level_1.toml", "level_2.toml", "level_3.toml",
      "level_4.toml", "level_5.toml", "level_6.toml", "level_7.toml">>

\* further include entries a file may carry: a chain file (present or not,
\* near the root or at the depth limit and beyond it), the template, a
\* directory, an absent optional file
ExtraPatterns ==
    {MAIN_CONFIG_FILENAME, "level_2.toml", "level_5.toml", "level_6.toml",
     "arcella.template.toml", "conf.d", "local.toml"}

\* the subsets of S with at most k elements
RECURSIVE subsets_upto(_, _)
subsets_upto(S, k) ==
    IF k = 0 THEN {{}}
    ELSE LET smaller == subsets_upto(S, k - 1)
         IN  smaller \cup {T \cup {x} : T \in smaller, x \in S}

\* what can be special about one file of the chain
Variants == {"unreadable", "unparsable", "pruned", "null"}

file_entry(readable, content) ==
    [kind |-> "file", readable |-> readable, content |-> content]

plain_content(includes, values) ==
    [parse_ok |-> TRUE, pruned |-> FALSE, includes |-> includes, values |-> values]

\* the text of the "unparsable" chain file i with the given include entries:
\* not valid TOML, or a document with a datetime as a value, inside an array,
\* as the value of includes, or below ten nested tables
unparsable_text(i, includes) ==
    LET includes_entry ==
            entry(INCLUDES_KEY,
                  ItemValue(TomlArray([k \in 1..Len(includes) |-> TomlString(includes[k])])))
        key_entry == entry("key_" \o ToString(i), ItemValue(TomlInteger(i)))
        when_entry == entry("when", ItemValue(TomlDatetime))
    IN  CASE i % 5 = 0 -> [valid |-> FALSE, doc |-> ItemTable(<<>>)]
          [] i % 5 = 1 ->
                [valid |-> TRUE, doc |-> ItemTable(<<includes_entry, key_entry, when_entry>>)]
          [] i % 5 = 2 ->
                [valid |-> TRUE,
                 doc |-> ItemTable(<<includes_entry, key_entry,
                            entry("list", ItemValue(TomlArray(<<TomlInteger(1), TomlDatetime>>)))>>)]
          [] i % 5 = 3 ->
                [valid |-> TRUE,
                 doc |-> ItemTable(<<entry(INCLUDES_KEY, ItemValue(TomlDatetime)), key_entry>>)]
          [] i % 5 = 4 ->
                [valid |-> TRUE,
                 doc |-> document(MAX_TOML_DEPTH, None, <<when_entry>>,
                                  <<includes_entry, key_entry>>, <<>>)]

\* the traversal outcome of a text: what parse_and_collect makes of it, less
\* the prefix and the file index, which the caller supplies
content_of(text) ==
    LET parsed == parse_and_collect_text(text, <<>>, 0)
    IN  IF ~parsed.ok
        THEN [parse_ok |-> FALSE, pruned |-> FALSE, includes |-> <<>>, values |-> <<>>]
        ELSE [parse_ok |-> TRUE, pruned |-> parsed.result = "Pruned",
              includes |-> parsed.config.includes,
              values |-> [k \in 1..Len(parsed.config.values) |->
                             [key |-> parsed.config.values[k].key,
                              value |-> parsed.config.values[k].value]]]

\* chain file i of a chain of n + 1 files, with its extra include entries
chain_file(i, n, extras, special) ==
    LET mine == {e[2] : e \in {x \in extras : x[1] = i}}
        variant == IF special # None /\ special[1][1] = i THEN special[1][2] ELSE "plain"
        includes == (IF i < n THEN <<ChainFiles[i + 2]>> ELSE <<>>) \o sorted_paths(mine)
    IN  IF variant = "unparsable"
        THEN [kind |-> "file", readable |-> TRUE,
              content |-> content_of(unparsable_text(i, includes)),
              text |-> unparsable_text(i, includes)]
        ELSE file_entry(variant # "unreadable",
               [parse_ok |-> TRUE,
                pruned |-> variant = "pruned",
                includes |-> includes,
                values |-> <<[key |-> "key_" \o ToString(i),
                              value |-> IF variant = "null" THEN Null ELSE Integer(i)]>>])

\* the files of a chain of n + 1 files, by path
chain_fs(n, extras, special) ==
    [p \in {join(config_dir, ChainFiles[i + 1]) : i \in 0..n} |->
        chain_file(CHOOSE i \in 0..n : join(config_dir, ChainFiles[i + 1]) = p,
                   n, extras, special)]

\* what the directory holds besides the chain: a template, and a directory
\* conf.d one file of which includes `level_1.toml`, a name found both in the
\* configuration directory and in conf.d, and another a file outside the
\* configuration directory by its absolute path
FixedFiles ==
    (join(config_dir, "arcella.template.toml") :> file_entry(TRUE, plain_content(<<>>, <<>>)))
    @@ (join(config_dir, "conf.d") :> [kind |-> "dir"])
    @@ (join(config_dir, "conf.d/b.toml") :>
          file_entry(TRUE, plain_content(<<"/etc/arcella/site.toml">>,
                                         <<[key |-> "b", value |-> Integer(1)]>>)))
    @@ (join(config_dir, "conf.d/A.TOML") :>
          file_entry(TRUE, plain_content(<<"level_1.toml">>, <<[key |-> "a", value |-> Integer(2)]>>)))
    @@ (join(config_dir, "conf.d/c.template.toml") :> file_entry(TRUE, plain_content(<<>>, <<>>)))
    @@ (join(config_dir, "conf.d/notes.txt") :> file_entry(TRUE, plain_content(<<>>, <<>>)))
    @@ (join(config_dir, "conf.d/level_1.toml") :>
          file_entry(TRUE, plain_content(<<>>, <<[key |-> "sibling", value |-> Integer(4)]>>)))
    @@ ("/etc/arcella/site.toml" :>
          file_entry(TRUE, plain_content(<<>>, <<[key |-> "site", value |-> Integer(3)]>>)))

LoadInit ==
    \E n \in 0..(Len(ChainFiles) - 1) :
      \E extras \in subsets_upto((0..n) \X ExtraPatterns, MaxExtra),
         special \in {None} \cup {Some(<<i, v>>) : i \in 0..n, v \in Variants} :
        /\ fs = chain_fs(n, extras, special) @@ FixedFiles
        /\ visited_paths = {}
        /\ config_files = <<DEFAULT_CONFIG_FILENAME>>
        /\ warnings = <<>>
        /\ stack = <<>>
        /\ load_status = "idle"
        /\ load_error = None
        /\ load_configs = <<>>
        /\ read_log = <<>>
        /\ parse_log = <<>>
        /\ load_runs = 0
        /\ default_config = TomlFileData(<<>>, <<>>)
        /\ configs = <<>>
        /\ preliminary_values = <<>>
        /\ final_values = <<>>
        /\ main_idx = None
        /\ default_idx = None
        /\ merge_pc = "idle"
        /\ layer_idx = -1
        /\ entry_pos = 0
        /\ merge_result = "none"
        /\ entry_warnings = 0
        /\ RestIdle

SpecLoad == LoadInit /\ [][LoadNext]_vars

\* the recursion is one sequential async task that the runtime keeps polling
SpecLoadFair == SpecLoad /\ WF_vars(LoadNext)

\* how often the root is loaded again with the state of the load before
MaxReloads == 1

\* load_config_recursive_from_file (lines 224-238) is called again for the
\* same root with the ConfigLoadState that the call before it has left
LoadAgain ==
    /\ load_status \in {"Ok", "Err"}
    /\ load_runs < MaxReloads
    /\ load_runs' = load_runs + 1
    /\ load_status' = "idle"
    /\ load_error' = None
    /\ load_configs' = <<>>
    /\ UNCHANGED <<fs, visited_paths, config_files, warnings, stack, read_log, parse_log,
                   merge_vars_but_state, rest_vars>>

ReloadNext == LoadNext \/ LoadAgain

SpecReload == LoadInit /\ [][ReloadNext]_vars

\* the two phases of load() (config/mod.rs lines 197-209): the recursive
\* load from the configuration directory, and merge_config on what a load
\* has handed over
ResolveInit == LoadInit \/ MergeInit

ResolveNext == LoadNext \/ MergeNext

SpecResolve == ResolveInit /\ [][ResolveNext]_vars

-----------------------------------------------------------------------------
(* Properties of merge_config                                              *)

MergeDone == merge_pc = "done" /\ merge_result = "Ok"

Layers == 0..(Len(configs) - 1)
Included == 1..(Len(configs) - 1)

\* layer k holds an entry under exactly this raw key
has_raw(k, raw) == map_contains(configs[k + 1].values, raw)
raw_entry(k, raw) == map_get(configs[k + 1].values, raw)

\* layer k holds an entry for K, with or without the suffix
mentions(k, K) == has_raw(k, K) \/ has_raw(k, K \o REDEF_SUFFIX)

\* positions of the warnings merge_config appended
Appended == (entry_warnings + 1)..Len(warnings)

\* appended ValueErrors for key K whose text contains pat
value_errors(K, pat) ==
    {i \in Appended : /\ warnings[i].type = "ValueError"
                      /\ warnings[i].key = K
                      /\ contains(warnings[i].error, pat)}

DefaultKeys == map_keys(default_config.values)
AllKeys == {actual_key(r) : r \in RawKeys}

\* K is in the default schema, the primary file's only entry for K is
\* K#redef, and inc is the one included file with an entry for K, a plain one
RedefCase(K, inc) ==
    /\ K \in DefaultKeys
    /\ has_raw(0, K \o REDEF_SUFFIX) /\ ~has_raw(0, K)
    /\ has_raw(inc, K) /\ ~has_raw(inc, K \o REDEF_SUFFIX)
    /\ \A o \in Included \ {inc} : ~mentions(o, K)

\* C1: a redef grant of the primary file lets the one included file that
\* sets K override the default: the final map holds the included file's value
\* tagged with the included file's index and no warning is produced for K.
C1_RedefTransitivity ==
    MergeDone =>
        \A K \in AllKeys : \A inc \in Included :
            RedefCase(K, inc) =>
                /\ map_contains(final_values, K)
                /\ map_get(final_values, K) =
                       [key |-> K, value |-> raw_entry(inc, K).value,
                        file_idx |-> raw_entry(inc, K).file_idx]
                /\ raw_entry(inc, K).file_idx = inc + 1
                /\ value_errors(K, "") = {}

C1_Witness ==
    /\ MergeDone
    /\ Len(configs) = 2
    /\ RedefCase("arcella.log.level", 1)
    /\ Len(warnings) = entry_warnings

\* C2: a pass-1 value for a default-schema key replaces the default exactly
\* when its defining file or its redef grantor is the primary file; otherwise
\* the default stays, tagged with the default's index, and exactly one
\* "#redef missing" ValueError is emitted for the key.
C2_SchemaGatedApplication ==
    MergeDone =>
        \A i \in 1..Len(preliminary_values) :
            LET p == preliminary_values[i]
                permitted == \/ Some(p.source_file) = main_idx
                             \/ p.redef_allowed_by = main_idx
                replaced == map_get(final_values, p.key) =
                                [key |-> p.key, value |-> p.value,
                                 file_idx |-> p.source_file]
            IN  p.key \in DefaultKeys =>
                  /\ replaced <=> permitted
                  /\ permitted => value_errors(p.key, "#redef missing") = {}
                  /\ ~permitted =>
                        /\ map_get(final_values, p.key) =
                               [key |-> p.key,
                                value |-> map_get(default_config.values, p.key).value,
                                file_idx |-> default_idx[1]]
                        /\ Cardinality(value_errors(p.key, "#redef missing")) = 1

C2_Witness ==
    /\ MergeDone
    /\ \E i, j \in 1..Len(preliminary_values) :
          /\ preliminary_values[i].key \in DefaultKeys
          /\ Some(preliminary_values[i].source_file) # main_idx
          /\ preliminary_values[i].redef_allowed_by # main_idx
          /\ preliminary_values[j].key \in DefaultKeys
          /\ preliminary_values[j].redef_allowed_by = main_idx

\* K is in the default schema, the primary file carries no K#redef, and inc
\* is the one included file with an entry for K, a plain one
DenialCase(K, inc) ==
    /\ K \in DefaultKeys
    /\ ~has_raw(0, K \o REDEF_SUFFIX)
    /\ has_raw(inc, K) /\ ~has_raw(inc, K \o REDEF_SUFFIX)
    /\ \A o \in Included \ {inc} : ~mentions(o, K)

default_entry(K) ==
    [key |-> K, value |-> map_get(default_config.values, K).value,
     file_idx |-> default_idx[1]]

\* C3 as claimed: without a K#redef in the primary file the included value is
\* rejected with a ValueError and the final value of K is the default, whether
\* or not the primary file sets K itself.
C3_RedefDenialAsClaimed ==
    MergeDone =>
        \A K \in AllKeys : \A inc \in Included :
            DenialCase(K, inc) =>
                /\ value_errors(K, "") # {}
                /\ map_get(final_values, K) = default_entry(K)

\* C3 amended: the included value is rejected with one ValueError in both
\* cases; the final value is the default when the primary file has no entry
\* for K, and the primary file's own value, tagged with the primary file's
\* index, when the primary file sets K without the suffix.
C3_RedefDenial ==
    MergeDone =>
        \A K \in AllKeys : \A inc \in Included :
            DenialCase(K, inc) =>
                /\ Cardinality(value_errors(K, "")) = 1
                /\ map_get(final_values, K) # [key |-> K,
                       value |-> raw_entry(inc, K).value,
                       file_idx |-> raw_entry(inc, K).file_idx]
                /\ IF has_raw(0, K)
                   THEN /\ map_get(final_values, K) =
                              [key |-> K, value |-> raw_entry(0, K).value,
                               file_idx |-> main_idx[1]]
                        /\ Cardinality(value_errors(K, "no #redef flag")) = 1
                   ELSE /\ map_get(final_values, K) = default_entry(K)
                        /\ Cardinality(value_errors(K, "#redef missing")) = 1

C3_Witness ==
    /\ MergeDone
    /\ Len(configs) = 2
    /\ DenialCase("arcella.log.level", 1)
    /\ has_raw(0, "arcella.log.level")
    /\ map_get(final_values, "arcella.log.level").value = make_toml_value("warn")

\* K is absent from the default schema and its only entry in the loaded
\* files is a plain one in the included file inc
NewKeyCase(K, inc) ==
    /\ K \notin DefaultKeys
    /\ has_raw(inc, K) /\ ~has_raw(inc, K \o REDEF_SUFFIX)
    /\ \A o \in Layers \ {inc} : ~mentions(o, K)

\* the key lies in the section arcella.custom or arcella.modules
under_newable_section(K) ==
    starts_with(K, "arcella.custom.") \/ starts_with(K, "arcella.modules.")

\* C4: a key absent from the default schema and set only in an included file
\* is in the final map, with the included file's value and index and no
\* warning, when it lies under arcella.custom or arcella.modules; under any
\* other section it is absent and exactly one "missing in default config"
\* ValueError is emitted.
C4_NamespaceGating ==
    MergeDone =>
        \A K \in AllKeys : \A inc \in Included :
            NewKeyCase(K, inc) =>
                IF under_newable_section(K)
                THEN /\ map_contains(final_values, K)
                     /\ map_get(final_values, K) =
                           [key |-> K, value |-> raw_entry(inc, K).value,
                            file_idx |-> raw_entry(inc, K).file_idx]
                     /\ value_errors(K, "") = {}
                ELSE /\ ~map_contains(final_values, K)
                     /\ Cardinality(value_errors(K, "missing in default config")) = 1
                     /\ Cardinality(value_errors(K, "")) = 1

\* C5: the returned map holds every default-schema key, holds only
\* default-schema keys and keys accepted as newable, has no key twice, and is
\* the default schema tagged with the default's index, with no warning, when
\* no loaded file sets a key.
C5_Completeness ==
    MergeDone =>
        /\ DefaultKeys \subseteq map_keys(final_values)
        /\ \A i \in 1..Len(final_values) :
              \/ final_values[i].key \in DefaultKeys
              \/ /\ is_newable(final_values[i].key)
                 /\ map_contains(preliminary_values, final_values[i].key)
        /\ \A i, j \in 1..Len(final_values) :
              final_values[i].key = final_values[j].key => i = j
        /\ (\A k \in Layers : configs[k + 1].values = <<>>) =>
              /\ final_values = [i \in 1..Len(default_config.values) |->
                     default_entry(default_config.values[i].key)]
              /\ Len(warnings) = entry_warnings

C5_Witness ==
    /\ MergeDone
    /\ Len(default_config.values) = 2
    /\ Len(final_values) > 2
    /\ \E i \in Appended : warnings[i].type = "ValueError"

\* C6: merge_config never aborts and never returns Err: it runs to its
\* return and returns Ok, and every warning it appends is a ValueError while
\* the warnings recorded before the call stay as they were.
C6_NeverFatal ==
    /\ merge_result \in {"none", "Ok"}
    /\ merge_pc = "done" => merge_result = "Ok"
    /\ merge_pc # "done" => ENABLED MergeNext
    /\ \A i \in Appended : warnings[i].type = "ValueError"
    /\ entry_warnings <= Len(warnings)
    /\ SubSeq(warnings, 1, entry_warnings) \in EntryWarnings

C6_Witness ==
    /\ MergeDone
    /\ entry_warnings = 1
    /\ Len(warnings) >= entry_warnings + 2

\* some file of lower priority than the one being visited has an entry for K
lower_priority_sets(K) == \E j \in Layers : j > layer_idx /\ mentions(j, K)

\* the values layer j writes for K, with or without the suffix
values_of(j, K) ==
    {configs[j + 1].values[i].value : i \in
        {i \in 1..Len(configs[j + 1].values) :
            configs[j + 1].values[i].key \in {K, K \o REDEF_SUFFIX}}}

\* every entry of the working map but the one of K stays as it is
others_unchanged(K) ==
    /\ Len(preliminary_values') = Len(preliminary_values)
    /\ \A i \in 1..Len(preliminary_values) :
          /\ preliminary_values'[i].key = preliminary_values[i].key
          /\ preliminary_values[i].key # K =>
                preliminary_values'[i] = preliminary_values[i]

\* exactly one warning is appended: a ValueError for K whose text contains pat
one_value_error_appended(K, pat) ==
    /\ Len(warnings') = Len(warnings) + 1
    /\ SubSeq(warnings', 1, Len(warnings)) = warnings
    /\ warnings'[Len(warnings')].type = "ValueError"
    /\ warnings'[Len(warnings')].key = K
    /\ contains(warnings'[Len(warnings')].error, pat)

\* the reconciliation pass goes through the loaded files from the last one
\* to the first one, and through the entries of one file in their order
visits_last_to_first ==
    /\ (merge_pc = "enter" /\ merge_pc' = "pass1") =>
          /\ configs[layer_idx' + 1].values # <<>>
          /\ entry_pos' = 1
          /\ \A j \in Layers : j > layer_idx' => configs[j + 1].values = <<>>
    /\ (merge_pc = "pass1" /\ merge_pc' = "pass1") =>
          \/ layer_idx' = layer_idx /\ entry_pos' = entry_pos + 1
          \/ /\ layer_idx' < layer_idx
             /\ entry_pos = Len(configs[layer_idx + 1].values)
             /\ entry_pos' = 1
             /\ \A j \in Layers :
                   (layer_idx' < j /\ j < layer_idx) => configs[j + 1].values = <<>>
    /\ (merge_pc = "pass1" /\ merge_pc' # "pass1") =>
          /\ entry_pos = Len(configs[layer_idx + 1].values)
          /\ \A j \in Layers : j < layer_idx => configs[j + 1].values = <<>>

\* C22: the reconciliation pass visits the loaded files from last to first;
\* when the visited file sets, without the suffix, a key K that a file of
\* lower priority already set, the working entry of K takes this file's value
\* and file index, its redef grantor stays what it was, exactly one
\* "no #redef flag" ValueError is appended and nothing else changes; the
\* displaced value is not the final value of K.
C22_ReconciliationOverwrite ==
    /\ [][visits_last_to_first]_vars
    /\ [][\A K \in AllKeys :
            (merge_pc = "pass1" /\ current_entry.key = K /\ lower_priority_sets(K)) =>
                /\ map_contains(preliminary_values, K)
                /\ map_get(preliminary_values', K) =
                       [key |-> K, value |-> current_entry.value,
                        source_layer |-> layer_idx,
                        source_file |-> current_entry.file_idx,
                        redef_allowed_by |->
                            map_get(preliminary_values, K).redef_allowed_by]
                /\ current_entry.file_idx = layer_idx + 1
                /\ others_unchanged(K)
                /\ one_value_error_appended(K, "no #redef flag")]_vars
    /\ [](MergeDone =>
            \A K \in AllKeys : \A i, j \in Layers :
                (i < j /\ has_raw(i, K) /\ mentions(j, K) /\ map_contains(final_values, K))
                    => map_get(final_values, K).value \notin values_of(j, K))

\* the primary file has overwritten the value of the last file and the grant
\* of the file between them is still recorded
C22_Witness ==
    /\ MergeDone
    /\ Len(configs) = 3
    /\ \E i \in 1..Len(preliminary_values) :
          /\ preliminary_values[i].source_file = 1
          /\ preliminary_values[i].redef_allowed_by = Some(2)
          /\ has_raw(2, preliminary_values[i].key)
          /\ Cardinality(value_errors(preliminary_values[i].key, "no #redef flag")) = 1

\* layer k carries K#redef and some file of lower priority has an entry for K
grants_over_lower(k, K) ==
    /\ has_raw(k, K \o REDEF_SUFFIX)
    /\ \E j \in Layers : j > k /\ mentions(j, K)

first_occurrence(K) ==
    /\ ~lower_priority_sets(K)
    /\ \A i \in 1..(entry_pos - 1) :
          configs[layer_idx + 1].values[i].key \notin {K, K \o REDEF_SUFFIX}

\* K#redef in layer k is the only entry for K in the loaded files
only_redef_entry(k, K) ==
    /\ has_raw(k, K \o REDEF_SUFFIX)
    /\ ~has_raw(k, K)
    /\ \A o \in Layers \ {k} : ~mentions(o, K)

\* C24: an entry K#redef = v that is the first occurrence of K is stored in
\* the working map as K = v, defined by its file and with no grantor, and
\* nothing else changes. When it is the only entry for a default-schema key K,
\* the returned map holds K = v tagged with the primary file's index and there
\* is no warning if the entry is in the primary file, and holds the default
\* with one "#redef missing" ValueError if it is in an included file.
C24_FirstRedefIsAssignment ==
    /\ [][\A K \in AllKeys :
            (merge_pc = "pass1" /\ current_entry.key = K \o REDEF_SUFFIX
                /\ first_occurrence(K)) =>
                /\ preliminary_values' = Append(preliminary_values,
                       [key |-> K, value |-> current_entry.value,
                        source_layer |-> layer_idx,
                        source_file |-> layer_idx + 1,
                        redef_allowed_by |-> None])
                /\ warnings' = warnings]_vars
    /\ [](MergeDone =>
            \A K \in DefaultKeys : \A k \in Layers :
                only_redef_entry(k, K) =>
                    IF k = 0
                    THEN /\ map_get(final_values, K) =
                               [key |-> K,
                                value |-> raw_entry(0, K \o REDEF_SUFFIX).value,
                                file_idx |-> main_idx[1]]
                         /\ main_idx = Some(1)
                         /\ value_errors(K, "") = {}
                    ELSE /\ map_get(final_values, K) = default_entry(K)
                         /\ Cardinality(value_errors(K, "#redef missing")) = 1
                         /\ Cardinality(value_errors(K, "")) = 1)

\* the primary file's only entry for a default-schema key carried the suffix
\* and its value is the final one
C24_Witness ==
    /\ MergeDone
    /\ only_redef_entry(0, "arcella.log.level")
    /\ "arcella.log.level" \in DefaultKeys
    /\ map_get(final_values, "arcella.log.level").value = redef_value(0)

\* an included file's only entry for a default-schema key carried the suffix
\* and the default is the final value
C24_WitnessIncluded ==
    /\ MergeDone
    /\ Len(configs) = 2
    /\ only_redef_entry(1, "arcella.log.level")
    /\ "arcella.log.level" \in DefaultKeys
    /\ map_get(final_values, "arcella.log.level") = default_entry("arcella.log.level")

\* C25: a key absent from the default schema is in the returned map only
\* when it starts with `arcella.custom.` or `arcella.modules.`; a key set by a
\* loaded file that lies outside these two sections, even if it shares their
\* text prefix (arcella.customer.x), is absent from the returned map and a
\* "missing in default config" ValueError is emitted for it.
C25_NewableNamespaceBoundary ==
    MergeDone =>
        \A K \in AllKeys \ DefaultKeys :
            /\ map_contains(final_values, K) => under_newable_section(K)
            /\ ((\E k \in Layers : mentions(k, K)) /\ ~under_newable_section(K)) =>
                  /\ ~map_contains(final_values, K)
                  /\ value_errors(K, "missing in default config") # {}

\* the same for the keys that do not merely share the text prefix
C25_BoundaryForOtherSections ==
    MergeDone =>
        \A K \in (AllKeys \ DefaultKeys) \ {"arcella.customer.x"} :
            /\ map_contains(final_values, K) => under_newable_section(K)
            /\ ((\E k \in Layers : mentions(k, K)) /\ ~under_newable_section(K)) =>
                  /\ ~map_contains(final_values, K)
                  /\ value_errors(K, "missing in default config") # {}

\* the index the loader gave the file of layer k
file_index_of(k) == only({i - 1 : i \in {i \in 1..Len(config_files) :
                                           config_files[i] = layer_path(k)}})

\* the entry holds the default value and the default schema's index
tagged_as_default(f) ==
    /\ f.key \in DefaultKeys
    /\ f = default_entry(f.key)
    /\ Some(f.file_idx) = get_index_of(config_files, DEFAULT_CONFIG_FILENAME)

\* the entry holds a value that layer k wrote for its key, and the index of
\* the file of layer k
tagged_as_file(f, k) ==
    /\ f.file_idx = file_index_of(k)
    /\ f.value \in values_of(k, f.key)

\* the working entry p overrides the default through a grant of another file
granted_override(p) ==
    /\ p.key \in DefaultKeys
    /\ p.redef_allowed_by = main_idx
    /\ Some(p.source_file) # main_idx

\* C26: every entry of the returned map is tagged either with the default
\* schema's index, and then holds the default value, or with the index of the
\* loaded file whose value it holds; an entry whose override was authorised by
\* a grant carries the index of the file that defined the value, not the
\* grantor's.
C26_Provenance ==
    MergeDone =>
        /\ \A i \in 1..Len(final_values) :
              \/ tagged_as_default(final_values[i])
              \/ \E k \in Layers : tagged_as_file(final_values[i], k)
        /\ \A j \in 1..Len(preliminary_values) :
              granted_override(preliminary_values[j]) =>
                  LET p == preliminary_values[j]
                      f == map_get(final_values, p.key) IN
                  /\ f.file_idx = p.source_file
                  /\ f.file_idx # p.redef_allowed_by[1]
                  /\ f.value = p.value
                  /\ tagged_as_file(f, p.source_layer)

\* the returned map holds a kept default, a value of the primary file and a
\* value of an included file that the primary file granted
C26_Witness ==
    /\ MergeDone
    /\ \E i, j \in 1..Len(final_values) :
          /\ tagged_as_default(final_values[i])
          /\ tagged_as_file(final_values[j], 0)
    /\ \E j \in 1..Len(preliminary_values) :
          /\ granted_override(preliminary_values[j])
          /\ map_get(final_values, preliminary_values[j].key).file_idx = 2

-----------------------------------------------------------------------------
(* Properties of the recursive loader                                      *)

LoadDone == load_status \in {"Ok", "Err"}

Range(q) == {q[i] : i \in 1..Len(q)}
count(q, x) == Cardinality({i \in 1..Len(q) : q[i] = x})

chain_path(i) == join(config_dir, ChainFiles[i + 1])
chain_paths(k) == [i \in 1..(k + 1) |-> chain_path(i - 1)]

warnings_of(type) == SelectSeq(warnings, LAMBDA w : w.type = type)

\* every path was parsed at most once and is in config_files exactly once
parsed_once ==
    /\ \A p \in Range(parse_log) : count(parse_log, p) = 1 /\ count(config_files, p) = 1
    /\ \A p \in Range(config_files) : count(config_files, p) = 1

\* the call that runs next names a path that was loaded before
is_rereference == has_call /\ call.config_file_path \in Range(parse_log)

duplicate_include_of_call ==
    DuplicateIncludeWarning(call.config_file_path, call.included_from[1])

\* C7 as claimed: each path is parsed at most once and is in config_files
\* exactly once, and every reference to a path loaded before appends a
\* DuplicateInclude warning and parses nothing.
C7_IdempotentDedupAsClaimed ==
    /\ [](parsed_once)
    /\ [][is_rereference =>
            /\ warnings' = Append(warnings, duplicate_include_of_call)
            /\ parse_log' = parse_log]_vars

\* C7 as amended: each path is parsed at most once and is in config_files
\* exactly once; a reference to a path loaded before is never read or parsed
\* again and returns empty, with a DuplicateInclude warning when it is made
\* at a depth of at most MAX_CONFIG_DEPTH and a MaxDepthReached warning when
\* it is made deeper.
C7_IdempotentDedup ==
    /\ [](parsed_once)
    /\ [][is_rereference =>
            /\ warnings' = Append(warnings,
                  IF call.current_depth > MAX_CONFIG_DEPTH
                  THEN MaxDepthReached(call.config_file_path)
                  ELSE duplicate_include_of_call)
            /\ parse_log' = parse_log
            /\ read_log' = read_log
            /\ config_files' = config_files
            /\ visited_paths' = visited_paths
            /\ load_status' \in {"running", "Ok"}]_vars

C7_Witness ==
    /\ load_status = "Ok"
    /\ \E i \in 1..Len(warnings) :
          /\ warnings[i].type = "DuplicateInclude"
          /\ count(parse_log, warnings[i].path) = 1
          /\ count(config_files, warnings[i].path) = 1

\* the number of files the chain has after the primary one
chain_len ==
    CHOOSE n \in 0..(Len(ChainFiles) - 1) :
        /\ chain_path(n) \in DOMAIN fs
        /\ n < Len(ChainFiles) - 1 => chain_path(n + 1) \notin DOMAIN fs

\* the directory holds a chain whose files carry exactly the include
\* entries `extras` besides the next file, and all read and parse
chain_with(extras) ==
    \A j \in 0..chain_len : fs[chain_path(j)] = chain_file(j, chain_len, extras, None)

is_plain_chain == chain_with({})

\* C8: on a chain root -> f1 -> ... -> fN of files that include only the
\* next one, N > MAX_CONFIG_DEPTH loads exactly root..f5 and leaves one
\* MaxDepthReached warning, naming f6; N <= MAX_CONFIG_DEPTH loads every
\* file and leaves no MaxDepthReached warning.
C8_DepthMonotonicity ==
    is_plain_chain /\ LoadDone =>
        LET loaded == chain_paths(min(chain_len, MAX_CONFIG_DEPTH)) IN
        /\ load_status = "Ok"
        /\ read_log = loaded
        /\ parse_log = loaded
        /\ config_files = <<DEFAULT_CONFIG_FILENAME>> \o loaded
        /\ visited_paths = Range(loaded)
        /\ load_configs =
              [k \in 1..Len(loaded) |->
                  parse_and_collect(fs[loaded[k]].content, params.prefix, k).config]
        /\ warnings_of("MaxDepthReached") =
              IF chain_len > MAX_CONFIG_DEPTH
              THEN <<MaxDepthReached(chain_path(MAX_CONFIG_DEPTH + 1))>>
              ELSE <<>>

C8_Witness ==
    /\ is_plain_chain
    /\ chain_len = MAX_CONFIG_DEPTH + 2
    /\ load_status = "Ok"
    /\ Len(load_configs) = MAX_CONFIG_DEPTH + 1
    /\ Len(warnings) = 1

\* the call that runs next reads a file, and the read fails
read_fails == will_read /\ ~read_ok(call.config_file_path)

\* C9: a failing read returns Err(IoWithPath) with the path of the file and
\* ends the whole load without a result, and it leaves visited_paths and
\* config_files as they were, neither of them holding the failing path.
C9_ReadFailureIsFatal ==
    /\ [](load_status = "Err" =>
            /\ stack = <<>>
            /\ load_configs = <<>>
            /\ ~ENABLED LoadNext)
    /\ [][read_fails =>
            /\ load_status' = "Err"
            /\ load_error' = Some(IoWithPath(call.config_file_path))
            /\ visited_paths' = visited_paths
            /\ config_files' = config_files
            /\ call.config_file_path \notin visited_paths'
            /\ call.config_file_path \notin Range(config_files')]_vars

C9_Witness ==
    /\ load_status = "Err"
    /\ load_error # None
    /\ load_error[1].type = "IoWithPath"
    /\ Len(parse_log) >= 2
    /\ load_error[1].path \notin visited_paths
    /\ load_error[1].path = read_log[Len(read_log)]

\* the chain has the cycle f_t -> ... -> f_i -> f_t (f_0 the primary file)
\* and no other extra include entry
CycleCase(t, i) ==
    /\ t <= i
    /\ i <= chain_len
    /\ chain_with({<<i, ChainFiles[t + 1]>>})

CycleTargets == {0, 2}

\* C10 as claimed: every load terminates, and on a cycle every file of the
\* cycle is loaded once, the reference that closes the cycle leaves a
\* DuplicateInclude warning, and the load returns Ok.
C10_CycleSafetyAsClaimed ==
    /\ <>LoadDone
    /\ [](\A t \in CycleTargets, i \in 0..(Len(ChainFiles) - 1) :
            CycleCase(t, i) /\ LoadDone =>
                /\ load_status = "Ok"
                /\ \A j \in t..i : count(parse_log, chain_path(j)) = 1
                /\ count(warnings,
                      DuplicateIncludeWarning(chain_path(t), chain_path(i))) = 1)

\* C10 as amended: every load terminates; on a cycle f_t -> ... -> f_i -> f_t
\* the load returns Ok, every file at a depth of at most MAX_CONFIG_DEPTH is
\* loaded once and no other file is loaded, and the reference that closes
\* the cycle returns empty with a DuplicateInclude warning when it is made at
\* a depth of at most MAX_CONFIG_DEPTH (i < MAX_CONFIG_DEPTH), with a
\* MaxDepthReached warning when it is made at depth MAX_CONFIG_DEPTH + 1, and
\* is never made when f_i itself lies deeper than MAX_CONFIG_DEPTH.
C10_CycleSafety ==
    /\ <>LoadDone
    /\ [](\A t \in CycleTargets, i \in 0..(Len(ChainFiles) - 1) :
            CycleCase(t, i) /\ LoadDone =>
                /\ load_status = "Ok"
                /\ parse_log = chain_paths(min(chain_len, MAX_CONFIG_DEPTH))
                /\ Len(load_configs) = Len(parse_log)
                /\ warnings =
                      (IF i < MAX_CONFIG_DEPTH
                       THEN <<DuplicateIncludeWarning(chain_path(t), chain_path(i))>>
                       ELSE IF i = MAX_CONFIG_DEPTH
                       THEN <<MaxDepthReached(chain_path(t))>>
                       ELSE <<>>)
                      \o (IF chain_len > MAX_CONFIG_DEPTH
                          THEN <<MaxDepthReached(chain_path(MAX_CONFIG_DEPTH + 1))>>
                          ELSE <<>>))

C10_Witness ==
    /\ CycleCase(0, 1)
    /\ load_status = "Ok"
    /\ Len(parse_log) = chain_len + 1
    /\ warnings_of("DuplicateInclude") # <<>>

\* every file of the directory can be read and parsed
all_files_good ==
    \A p \in DOMAIN fs :
        fs[p].kind = "file" => fs[p].readable /\ fs[p].content.parse_ok

\* the include entries of a loaded file, resolved
resolved_of(p) == resolve_include_paths(fs[p].content.includes, params.config_dir)

expected_config(p) ==
    parse_and_collect(fs[p].content, params.prefix,
                      get_index_of(config_files, p)[1]).config

\* the position of a loaded path in the order of loading
pos_of(p) == CHOOSE k \in 1..Len(parse_log) : parse_log[k] = p

\* C12: the result of a call is the file's own ParsedFile followed by the
\* complete results of its includes in the order they were taken up: what an
\* active call has collected so far is the run of files loaded from its own
\* file up to the file its current include is loading, and the top-level
\* result lists every loaded file in the order of loading, the primary file
\* first.
C12_PreOrderResult ==
    /\ \A j \in 1..Len(stack) :
          LET f == stack[j]
              first == pos_of(f.config_file_path)
              last == IF j = Len(stack) THEN Len(parse_log)
                      ELSE pos_of(stack[j + 1].config_file_path) - 1
          IN  /\ f.all_configs[1] = expected_config(f.config_file_path)
              /\ f.all_configs =
                    [k \in 1..(last - first + 1) |-> expected_config(parse_log[first + k - 1])]
              /\ j < Len(stack) => first < pos_of(stack[j + 1].config_file_path)
    /\ load_status = "Ok" =>
          /\ load_configs = [k \in 1..Len(parse_log) |-> expected_config(parse_log[k])]
          /\ load_configs[1] = expected_config(join(config_dir, MAIN_CONFIG_FILENAME))

\* a directory was expanded into two files below the primary file and the
\* chain went on after them
C12_Witness ==
    /\ load_status = "Ok"
    /\ Len(load_configs) >= 5
    /\ \E k \in 2..(Len(parse_log) - 2) :
          /\ parse_log[k] = join(config_dir, "conf.d/A.TOML")
          /\ parse_log[k + 1] # join(config_dir, "conf.d/b.toml")
          /\ join(config_dir, "conf.d/b.toml") \in Range(parse_log)

-----------------------------------------------------------------------------
(* Properties of the loader at the depth limit                             *)

\* the call that runs next is made beyond the depth limit
call_beyond_limit == has_call /\ call.current_depth > MAX_CONFIG_DEPTH

\* the caller of the call that runs next receives Ok(vec![]): its loop goes
\* on to the next path with the configurations it had
caller_receives_empty ==
    /\ Len(stack') = Len(stack)
    /\ stack' = [stack EXCEPT ![Len(stack)].pos = @ + 1]
    /\ load_status' = "running"
    /\ load_configs' = load_configs

\* a call beyond the limit reads nothing, pushes MaxDepthReached and nothing
\* else, returns an empty result and leaves the known paths as they are
rejected_without_trace ==
    call_beyond_limit =>
        /\ read_log' = read_log
        /\ parse_log' = parse_log
        /\ warnings' = Append(warnings, MaxDepthReached(call.config_file_path))
        /\ caller_receives_empty
        /\ visited_paths' = visited_paths
        /\ config_files' = config_files

\* a path rejected beyond the limit and referenced at depth 5 or less has
\* been read once that reference is dealt with
later_reference_loads ==
    (/\ has_call
     /\ call.current_depth <= MAX_CONFIG_DEPTH
     /\ MaxDepthReached(call.config_file_path) \in Range(warnings))
        => /\ call.config_file_path \in Range(read_log')
           /\ call.config_file_path \notin Range(read_log) =>
                 read_log' = Append(read_log, call.config_file_path)

\* a file is read by a call at depth 5 or less only
reads_within_limit ==
    read_log' # read_log => has_call /\ call.current_depth <= MAX_CONFIG_DEPTH

\* C32: the depth check comes first and leaves no trace. A path reached at
\* current_depth > MAX_CONFIG_DEPTH is not read, gets MaxDepthReached (and no
\* DuplicateInclude, also when it is already known) and an empty result, and
\* visited_paths and config_files stay as they are, so that a later reference
\* to it at depth 5 or less loads it; no file is read at a depth beyond 5.
C32_DepthCheckFirst ==
    /\ [][rejected_without_trace]_vars
    /\ [][later_reference_loads]_vars
    /\ [][reads_within_limit]_vars
    /\ [](\A k \in 1..Len(stack) : stack[k].current_depth <= MAX_CONFIG_DEPTH)

\* level_6.toml was rejected beyond the limit, then loaded through the entry
\* of the primary file; the primary file, already known, was rejected beyond
\* the limit with MaxDepthReached alone
C32_Witness ==
    /\ load_status = "Ok"
    /\ MaxDepthReached(join(config_dir, "level_6.toml")) \in Range(warnings)
    /\ join(config_dir, "level_6.toml") \in Range(read_log)
    /\ \E k \in 1..Len(load_configs) :
          \E v \in Range(load_configs[k].values) : v.key = "arcella.key_6"

\* a path that is already known was rejected beyond the limit
C32_WitnessKnownPath ==
    /\ load_status = "Ok"
    /\ \E w \in Range(warnings) : w.type = "MaxDepthReached" /\ w.path \in visited_paths
    /\ \A w \in Range(warnings) : w.type # "DuplicateInclude"

\* the call that runs next names, at depth 5 or less, a file loaded before
names_loaded_file ==
    /\ has_call
    /\ call.current_depth <= MAX_CONFIG_DEPTH
    /\ call.config_file_path \in Range(parse_log)

\* such a reference gets DuplicateInclude and an empty result; nothing is read
duplicate_not_expanded ==
    names_loaded_file =>
        /\ call.included_from # None
        /\ warnings' = Append(warnings,
              DuplicateIncludeWarning(call.config_file_path, call.included_from[1]))
        /\ read_log' = read_log
        /\ parse_log' = parse_log
        /\ caller_receives_empty

\* a file loaded at depth 5 brings its own configuration and nothing of what
\* it includes
nothing_below_depth_limit ==
    \A k \in 1..Len(stack) :
        stack[k].current_depth = MAX_CONFIG_DEPTH => Len(stack[k].all_configs) = 1

\* no file is read twice
read_at_most_once ==
    \A i, j \in 1..Len(read_log) : read_log[i] = read_log[j] => i = j

\* the paths within k include hops of the primary file
RECURSIVE within_hops(_)
within_hops(k) ==
    IF k = 0 THEN {join(config_dir, MAIN_CONFIG_FILENAME)}
    ELSE LET nearer == within_hops(k - 1)
         IN  nearer \cup UNION {Range(collect_includes(fs[p].content.includes, config_dir))
                                  : p \in {q \in nearer : read_ok(q)}}

-----------------------------------------------------------------------------
(* Properties of the file indices of a load                                *)

\* the configuration at position k of the result carries index k in all of
\* its values: the k-th element counted from 0 carries k + 1
result_indexed_in_order ==
    \A k \in 1..Len(load_configs) :
        \A v \in Range(load_configs[k].values) : v.file_idx = k

-----------------------------------------------------------------------------
(* Properties of a load that follows a failed one on the same state        *)

root_path == join(config_dir, MAIN_CONFIG_FILENAME)

\* the load has returned Err(TOML): the file parsed last did not parse
parse_failure_returned == load_status = "Err" /\ load_error = Some(TomlError)

\* the root is about to be loaded again after a load that ended on a file
\* that did not parse
reload_after_parse_failure ==
    /\ load_status = "idle"
    /\ load_runs > 0
    /\ parse_log # <<>>
    /\ ~fs[parse_log[Len(parse_log)]].content.parse_ok

C35_WitnessIncluded ==
    /\ load_runs = 1
    /\ load_status = "Ok"
    /\ load_configs = <<>>
    /\ Len(read_log) >= 3
    /\ ~fs[parse_log[Len(parse_log)]].content.parse_ok
    /\ warnings[Len(warnings)] = DuplicateIncludeWarning(root_path, root_path)

-----------------------------------------------------------------------------
(* Properties of the warning list over loading and merging                 *)

\* the warnings recorded so far are the first ones of the list after the step
warnings_kept == 
    /\ Len(warnings') >= Len(warnings)
    /\ SubSeq(warnings', 1, Len(warnings)) = warnings

\* a step that records a warning does not end in an error
warning_is_not_error ==
    warnings' # warnings => load_status' # "Err" /\ merge_result' # "panic"

\* the step that returns the Err of a load leaves the warnings as they were
error_keeps_warnings ==
    (load_status # "Err" /\ load_status' = "Err") => warnings' = warnings

\* C36: warnings are append-only. No step of loading or merging removes,
\* reorders or rewrites a warning already recorded, the list only grows at
\* its end, a warning never turns into an Err, and the warnings recorded
\* before a fatal error are in the state when the Err is returned.
C36_WarningsAppendOnly ==
    /\ [][warnings_kept]_vars
    /\ [][warning_is_not_error]_vars
    /\ [][error_keeps_warnings]_vars
    /\ [](merge_result # "panic")

\* a load that has recorded a warning and then failed in a later file
C36_Witness ==
    /\ load_status = "Err"
    /\ load_error # None
    /\ Len(warnings) >= 1

\* a merge that has added two warnings to the one it was entered with
C36_WitnessMerge ==
    /\ merge_pc = "done"
    /\ entry_warnings = 1
    /\ Len(warnings) >= 3
    /\ warnings[1] \in Range(CHOOSE w \in EntryWarnings : w # <<>>)

-----------------------------------------------------------------------------
(* Inclusion scans: find_toml_files_in_dir and collect_includes applied    *)
(* to a directory whose entries the filesystem lists in any order          *)

MaxDirEntries == 3
MaxIncludes == 2

\* slice::sort_by_key over the lower-cased file name (lib.rs lines 221-226):
\* a stable sort, entries with equal keys stay in the order they came
sort_by_key_lower_name(files) ==
    only({[i \in 1..Len(files) |->
              files[CHOOSE j \in 1..Len(files) :
                      Cardinality({k \in 1..Len(files) :
                                      \/ str_lt(keys[k], keys[j])
                                      \/ keys[k] = keys[j] /\ k < j}) = i - 1]]
          : keys \in {[j \in 1..Len(files) |-> to_lowercase(file_name(files[j]))]}})

\* lib.rs lines 194-231, with dir_entries the order in which read_dir yields
\* the entries of dir_path
find_toml_files_in_dir_vec(dir_path, dir_entries) ==
    IF dir_path \notin DOMAIN fs
    THEN [ok |-> FALSE, error |-> IoWithPath(dir_path)]
    ELSE IF ~Path_is_dir(dir_path)
    THEN [ok |-> TRUE, value |-> None]
    ELSE [ok |-> TRUE,
          value |-> Some(sort_by_key_lower_name(
                        SelectSeq(dir_entries,
                                  LAMBDA path : ~Path_is_dir(path)
                                                /\ is_valid_toml_file_path(path))))]

\* the scanned directory and the names its entries are drawn from
ScanDir == join(config_dir, "conf.d")
ScanNames ==
    {"z.toml", "a.toml", "m.toml", "A.toml", "B.TOML", "x.template.toml",
     "notes.txt", "sub"}
ScanPatterns == {"conf.d", "conf.d/a.toml", "conf.d/B.TOML", "top.toml", "conf.d/sub"}
ScanTargets == {ScanDir, join(config_dir, "top.toml"), join(config_dir, "missing")}

\* the orders in which a directory holding the paths S can be listed
enumerations(S) ==
    {e \in [1..Cardinality(S) -> S] : {e[i] : i \in 1..Cardinality(S)} = S}

seqs_upto(S, n) == UNION {[1..k -> S] : k \in 0..n}

\* config/top.toml, and config/conf.d holding the named entries; "sub" is a
\* subdirectory with a file of its own
scan_fs(names) ==
    [p \in {join(ScanDir, name) : name \in names \ {"sub"}} |->
        file_entry(TRUE, plain_content(<<>>, <<>>))]
    @@ (IF "sub" \in names
        THEN (join(ScanDir, "sub") :> [kind |-> "dir"])
             @@ (join(ScanDir, "sub/nested.toml") :>
                   file_entry(TRUE, plain_content(<<>>, <<>>)))
        ELSE <<>>)
    @@ (config_dir :> [kind |-> "dir"])
    @@ (ScanDir :> [kind |-> "dir"])
    @@ (join(config_dir, "top.toml") :> file_entry(TRUE, plain_content(<<>>, <<>>)))

\* merge_config and load_config_recursive are not running
MergeIdle ==
    /\ default_config = TomlFileData(<<>>, <<>>)
    /\ configs = <<>>
    /\ config_files = <<>>
    /\ warnings = <<>>
    /\ preliminary_values = <<>>
    /\ final_values = <<>>
    /\ main_idx = None
    /\ default_idx = None
    /\ merge_pc = "idle"
    /\ layer_idx = -1
    /\ entry_pos = 0
    /\ merge_result = "none"
    /\ entry_warnings = 0

LoadIdle ==
    /\ visited_paths = {}
    /\ stack = <<>>
    /\ load_status = "idle"
    /\ load_error = None
    /\ load_configs = <<>>
    /\ read_log = <<>>
    /\ parse_log = <<>>
    /\ load_runs = 0

ScanInit ==
    \E names \in subsets_upto(ScanNames, MaxDirEntries) :
      \E dir_entries \in enumerations({join(ScanDir, name) : name \in names}),
         dir_path \in ScanTargets,
         includes \in seqs_upto(ScanPatterns, MaxIncludes) :
        /\ dir_path # ScanDir => includes = <<>>
        /\ fs = scan_fs(names)
        /\ scan_pc = "ready"
        /\ scan_in = [dir_path |-> dir_path, dir_entries |-> dir_entries,
                      includes |-> includes]
        /\ scan_out = <<>>
        /\ scan_join = <<>>
        /\ MergeIdle
        /\ LoadIdle
        /\ TomlIdle
        /\ AlmeIdle
        /\ ServerIdle
        /\ MoreIdle

scan_frame ==
    UNCHANGED <<merge_vars, load_vars, scan_in, scan_join, toml_vars, alme_vars, server_vars, more_vars>>

join_frame == UNCHANGED <<merge_vars, load_vars, scan_in, toml_vars, alme_vars, server_vars, more_vars>>

\* one call of find_toml_files_in_dir(dir_path)
FindTomlFilesInDir ==
    /\ scan_pc = "ready"
    /\ scan_pc' = "found"
    /\ scan_out' = find_toml_files_in_dir_vec(scan_in.dir_path, scan_in.dir_entries)
    /\ scan_frame

\* one call of collect_includes(includes, config_dir)
CollectIncludes ==
    /\ scan_pc = "ready"
    /\ scan_pc' = "collected"
    /\ scan_out' = collect_includes(scan_in.includes, config_dir)
    /\ scan_frame

\* Vec::sort (lib.rs line 309): a stable sort by Ord of PathBuf
sort_paths_left_as_collected(paths) == paths

sort_paths(paths) ==
    [i \in 1..Len(paths) |->
        paths[CHOOSE j \in 1..Len(paths) :
                Cardinality({k \in 1..Len(paths) :
                                \/ path_lt(paths[k], paths[j])
                                \/ paths[k] = paths[j] /\ k < j}) = i - 1]]

\* the entries of a sequence of sequences, one after the other
RECURSIVE concat(_)
concat(seqs) == IF seqs = <<>> THEN <<>> ELSE seqs[1] \o concat(Tail(seqs))

\* collect_includes, lines 258-287: the resolved paths come out of their
\* HashSet in some order and go to include_files or include_dirs in that
\* order; the file checks, which await nothing, are joined; the directory
\* scans are started
CollectStart ==
    /\ scan_pc = "ready"
    /\ \E all_paths \in enumerations(resolve_include_paths(scan_in.includes, config_dir)) :
         scan_join' =
             [include_dirs |->
                  SelectSeq(all_paths, LAMBDA q : ~Path_is_file(q) /\ Path_is_dir(q)),
              file_results |->
                  SelectSeq(all_paths, LAMBDA q : Path_is_file(q) /\ is_valid_toml_file_path(q)),
              dir_results |->
                  [i \in 1..Len(SelectSeq(all_paths,
                                          LAMBDA q : ~Path_is_file(q) /\ Path_is_dir(q)))
                      |-> None]]
    /\ scan_pc' = "joining"
    /\ UNCHANGED scan_out
    /\ join_frame

\* the orders in which read_dir may list dir_path: the one given for the
\* scanned directory, any for another
listings(dir_path) ==
    IF dir_path = ScanDir THEN {scan_in.dir_entries}
    ELSE enumerations({q \in DOMAIN fs : parent(q) = dir_path})

\* line 288: the scan of one directory completes, in any order among the
\* scans; join_all keeps its result at the position of its future
DirScanCompletes(i) ==
    /\ scan_pc = "joining"
    /\ i \in DOMAIN scan_join.dir_results
    /\ scan_join.dir_results[i] = None
    /\ \E dir_entries \in listings(scan_join.include_dirs[i]) :
         \E found \in {find_toml_files_in_dir_vec(scan_join.include_dirs[i], dir_entries)} :
            /\ found.ok
            /\ scan_join' = [scan_join EXCEPT !.dir_results[i] =
                                 Some(IF found.value = None THEN <<>> ELSE found.value[1])]
    /\ UNCHANGED <<scan_pc, scan_out>>
    /\ join_frame

\* lines 290-311: every scan is over; the results are collected in the order
\* of the futures, made unique through a HashSet, which yields them in some
\* order, and sorted
CollectJoin ==
    /\ scan_pc = "joining"
    /\ \A i \in DOMAIN scan_join.dir_results : scan_join.dir_results[i] # None
    /\ \E collected_files \in
            {scan_join.file_results
               \o concat([i \in DOMAIN scan_join.dir_results |-> scan_join.dir_results[i][1]])} :
         \E unique_files \in enumerations(Range(collected_files)) :
            scan_out' = sort_paths(unique_files)
    /\ scan_pc' = "joined"
    /\ UNCHANGED scan_join
    /\ join_frame

ScanNext ==
    \/ FindTomlFilesInDir
    \/ CollectIncludes
    \/ CollectStart
    \/ \E i \in 1..MaxIncludes : DirScanCompletes(i)
    \/ CollectJoin

SpecScan == ScanInit /\ [][ScanNext]_vars

-----------------------------------------------------------------------------
(* Properties of the inclusion scans                                       *)

lower_name(path) == to_lowercase(file_name(path))

\* the predicate on names: the name ends in .toml and not in .template.toml,
\* whatever the case of its letters
toml_named(path) ==
    /\ ends_with(lower_name(path), ".toml")
    /\ ~ends_with(lower_name(path), TEMPLATE_TOML_SUFFIX)

\* the regular files directly inside dir
files_directly_in(dir) == {q \in DOMAIN fs : parent(q) = dir /\ Path_is_file(q)}

\* the scan of the directory returned exactly its files with a TOML name
scan_returns_toml_files ==
    /\ scan_out.ok
    /\ scan_out.value # None
    /\ Range(scan_out.value[1]) = {q \in files_directly_in(ScanDir) : toml_named(q)}
    /\ Len(scan_out.value[1]) = Cardinality(Range(scan_out.value[1]))

\* the returned files are in the order of their lower-cased names
scan_ordered_by_lower_name ==
    \A i, j \in 1..Len(scan_out.value[1]) :
        i < j => ~str_lt(lower_name(scan_out.value[1][j]), lower_name(scan_out.value[1][i]))

\* whatever order the directory is listed in, the scan returns the same
scan_independent_of_enumeration ==
    \A e \in enumerations(Range(scan_in.dir_entries)) :
        find_toml_files_in_dir_vec(ScanDir, e) = scan_out

\* a file named directly in includes is returned iff its name is a TOML name
direct_file_same_predicate ==
    \A q \in resolve_include_paths(scan_in.includes, config_dir) :
        Path_is_file(q) => (q \in Range(scan_out) <=> toml_named(q))

\* C13: expanding a directory returns, non-recursively, exactly the entries
\* with a .toml name that is not a .template.toml name (case-insensitive),
\* ordered by lower-cased file name whatever order the filesystem lists them
\* in; a file named directly in includes passes the same predicate.
C13_DirectoryExpansionDeterminism ==
    /\ scan_pc = "found" /\ scan_in.dir_path = ScanDir =>
          /\ scan_returns_toml_files
          /\ scan_ordered_by_lower_name
          /\ scan_independent_of_enumeration
    /\ scan_pc = "collected" => direct_file_same_predicate

\* what holds of the scan: everything but the independence of the listing
\* order when two names differ only by case
C13_ScanContentAndOrder ==
    /\ scan_pc = "found" /\ scan_in.dir_path = ScanDir =>
          /\ scan_returns_toml_files
          /\ scan_ordered_by_lower_name
          /\ (\A p, q \in Range(scan_in.dir_entries) :
                 lower_name(p) = lower_name(q) => p = q)
              => scan_independent_of_enumeration
    /\ scan_pc = "collected" => direct_file_same_predicate


\* the files the include entries name: valid files named directly and the
\* valid files directly inside the named directories
included_files ==
    {q \in DOMAIN fs :
        /\ Path_is_file(q)
        /\ toml_named(q)
        /\ \E r \in resolve_include_paths(scan_in.includes, config_dir) :
              \/ r = q
              \/ Path_is_dir(r) /\ parent(q) = r}

\* C14 as stated: the list returned by collect_includes holds each resolved
\* file path at most once and is sorted in case-insensitive order.
C14_UniqueSortedIgnoringCase ==
    scan_pc = "collected" =>
        /\ Range(scan_out) = included_files
        /\ Len(scan_out) = Cardinality(Range(scan_out))
        /\ \A i, j \in 1..Len(scan_out) :
              i < j => ~path_lt(to_lowercase(scan_out[j]), to_lowercase(scan_out[i]))

\* C14: the list returned by collect_includes holds each resolved file path
\* exactly once, however often and on whichever way the entries reach it, and
\* is in strictly ascending order of the paths compared component by
\* component with upper-case letters before lower-case ones.
C14_UniqueSorted ==
    scan_pc = "collected" =>
        /\ Range(scan_out) = included_files
        /\ Len(scan_out) = Cardinality(Range(scan_out))
        /\ \A i, j \in 1..Len(scan_out) : i < j => path_lt(scan_out[i], scan_out[j])

\* B.TOML is named directly and reached again through its directory, and
\* comes once, before a.toml
C14_Witness ==
    /\ scan_pc = "collected"
    /\ scan_in.includes = <<"conf.d/B.TOML", "conf.d">>
    /\ scan_out = <<join(ScanDir, "B.TOML"), join(ScanDir, "a.toml")>>

\* C31: the sequence returned by collect_includes depends only on the include
\* patterns and the directory contents: whatever order the resolved paths and
\* the collected files come out of their hash sets in, and whatever order
\* the directory scans complete in, it is the sorted sequence of the files
\* the patterns name.
C31_OrderIndependence ==
    scan_pc = "joined" => scan_out = sorted_paths(included_files)

\* two directories were scanned, taken from the hash set in the order opposite
\* to the one of the patterns, and files of both are returned
C31_Witness ==
    /\ scan_pc = "joined"
    /\ scan_in.includes = <<"conf.d", "conf.d/sub">>
    /\ scan_join.include_dirs = <<join(ScanDir, "sub"), ScanDir>>
    /\ join(ScanDir, "sub/nested.toml") \in Range(scan_out)
    /\ join(ScanDir, "z.toml") \in Range(scan_out)
    /\ join(ScanDir, "a.toml") \in Range(scan_out)

-----------------------------------------------------------------------------
(* parse_and_collect applied to one document                               *)

TomlInit ==
    \E n \in 0..MaxNest :
      \E special \in {None} \cup {Some(<<i, kind>>) : i \in 1..n, kind \in LinkKinds},
         bottom \in BottomEntries, before \in RootBefore, after \in RootAfter,
         valid \in BOOLEAN,
         args \in {<<<<>>, 0>>, <<<<"arcella">>, 2>>} :
        /\ distinct_keys(document(n, special, bottom, before, after).entries)
        /\ ~valid => n = 0 /\ before = <<>> /\ after = <<>>
        /\ toml_pc = "ready"
        /\ toml_in = [content |-> [valid |-> valid,
                                   doc |-> document(n, special, bottom, before, after)],
                      prefix |-> args[1], file_idx |-> args[2]]
        /\ toml_out = <<>>
        /\ fs = <<>>
        /\ MergeIdle
        /\ LoadIdle
        /\ ScanIdle
        /\ AlmeIdle
        /\ ServerIdle
        /\ MoreIdle

\* one call of parse_and_collect(content, prefix, file_idx)
ParseAndCollect ==
    /\ toml_pc = "ready"
    /\ toml_pc' = "done"
    /\ toml_out' = parse_and_collect_text(toml_in.content, toml_in.prefix, toml_in.file_idx)
    /\ UNCHANGED <<merge_vars, load_vars, scan_vars, toml_in, alme_vars, server_vars, more_vars>>

TomlNext == ParseAndCollect

SpecToml == TomlInit /\ [][TomlNext]_vars


-----------------------------------------------------------------------------
(* Properties of parse_and_collect                                         *)

\* the nesting level of the parts of a document: the root table is at level
\* 0, an entry one level below its table, and the element tables of an array
\* of tables one level below the array
RECURSIVE over_depth_item(_, _)
over_depth_item(item, depth) ==
    IF depth > MAX_TOML_DEPTH THEN TRUE
    ELSE CASE item.item = "Table" ->
                \E i \in 1..Len(item.entries) :
                    /\ item.entries[i].key # INCLUDES_KEY
                    /\ over_depth_item(item.entries[i].item, depth + 1)
           [] item.item = "Value" /\ item.value.type = "InlineTable" ->
                \E i \in 1..Len(item.value.entries) :
                    /\ item.value.entries[i].key # INCLUDES_KEY
                    /\ over_depth_item(item.value.entries[i].item, depth + 1)
           [] item.item = "ArrayOfTables" ->
                \E k \in 1..Len(item.tables) : over_depth_item(item.tables[k], depth + 1)
           [] OTHER -> FALSE

\* the document has a part nested beyond MAX_TOML_DEPTH
has_over_depth_subtree(doc) == over_depth_item(doc, 0)

\* the same item without its parts nested beyond MAX_TOML_DEPTH
RECURSIVE without_over_depth(_, _)
without_over_depth_entries(entries, depth) ==
    LET kept == SelectSeq(entries,
                    LAMBDA e : e.key = INCLUDES_KEY \/ depth + 1 <= MAX_TOML_DEPTH)
    IN  [i \in 1..Len(kept) |->
            IF kept[i].key = INCLUDES_KEY THEN kept[i]
            ELSE entry(kept[i].key, without_over_depth(kept[i].item, depth + 1))]

without_over_depth(item, depth) ==
    CASE item.item = "Table" -> ItemTable(without_over_depth_entries(item.entries, depth))
      [] item.item = "Value" /\ item.value.type = "InlineTable" ->
            ItemValue(TomlInlineTable(without_over_depth_entries(item.value.entries, depth)))
      [] item.item = "ArrayOfTables" ->
            ItemArrayOfTables([k \in 1..Len(item.tables) |->
                IF depth + 1 > MAX_TOML_DEPTH THEN ItemTable(<<>>)
                ELSE without_over_depth(item.tables[k], depth + 1)])
      [] OTHER -> item

\* the number of segments of a dotted key
RECURSIVE segments_from(_, _)
segments_from(key, i) ==
    IF i > Len(key) THEN 1
    ELSE (IF char_at(key, i) = "." THEN 1 ELSE 0) + segments_from(key, i + 1)

segments(key) == segments_from(key, 1)

\* C15: when a document has a subtree nested beyond MAX_TOML_DEPTH, the
\* traversal result is Pruned (at whatever level the subtree hangs), no stored
\* key lies beyond the limit, and the stored values are those of the same
\* document without the subtree.
C15_PruningPreservesShallowKeys ==
    toml_pc = "done" /\ toml_out.ok =>
        LET doc == toml_in.content.doc
            values == toml_out.config.values
            shallow == collect_paths(without_over_depth(doc, 0),
                                     toml_in.prefix, toml_in.file_idx)
        IN  /\ has_over_depth_subtree(doc) <=> toml_out.result = "Pruned"
            /\ \A i \in 1..Len(values) :
                  segments(values[i].key) <= Len(toml_in.prefix) + MAX_TOML_DEPTH
            /\ shallow.ok
            /\ shallow.config.values = values

\* a chain one level too deep with a key at its bottom, between two shallow
\* keys of the root which both are stored
C15_Witness ==
    /\ toml_pc = "done"
    /\ toml_out.ok
    /\ toml_out.result = "Pruned"
    /\ toml_in.prefix = <<"arcella">>
    /\ toml_in.content.doc =
          document(MAX_TOML_DEPTH, None, <<entry("port", ItemValue(TomlInteger(1)))>>,
                   <<entry("first", ItemValue(TomlInteger(0)))>>,
                   <<entry("last", ItemValue(TomlInteger(9)))>>)
    /\ toml_out.config.values =
          <<[key |-> "arcella.first", value |-> Integer(0), file_idx |-> 2],
            [key |-> "arcella.last", value |-> Integer(9), file_idx |-> 2]>>


\* what an includes directive names: its string, or the strings among the
\* elements of its array
RECURSIVE strings_among(_, _)
strings_among(elems, i) ==
    IF i > Len(elems) THEN <<>>
    ELSE (IF elems[i].type = "String" THEN <<elems[i].s>> ELSE <<>>)
         \o strings_among(elems, i + 1)

directive_strings(item) ==
    CASE item.item = "Value" /\ item.value.type = "String" -> <<item.value.s>>
      [] item.item = "Value" /\ item.value.type = "Array" -> strings_among(item.value.elems, 1)
      [] OTHER -> <<>>

\* the strings of every includes directive of an item, in document order,
\* however deep the directive lies
RECURSIVE all_includes(_)
RECURSIVE all_includes_of_entries(_, _)
all_includes_of_entries(entries, i) ==
    IF i > Len(entries) THEN <<>>
    ELSE (IF entries[i].key = INCLUDES_KEY THEN directive_strings(entries[i].item)
          ELSE all_includes(entries[i].item))
         \o all_includes_of_entries(entries, i + 1)

RECURSIVE all_includes_of_tables(_, _)
all_includes_of_tables(tables, k) ==
    IF k > Len(tables) THEN <<>>
    ELSE all_includes(tables[k]) \o all_includes_of_tables(tables, k + 1)

all_includes(item) ==
    CASE item.item = "Table" -> all_includes_of_entries(item.entries, 1)
      [] item.item = "Value" /\ item.value.type = "InlineTable" ->
            all_includes_of_entries(item.value.entries, 1)
      [] item.item = "ArrayOfTables" -> all_includes_of_tables(item.tables, 1)
      [] OTHER -> <<>>

\* the dotted key has a segment named includes
names_includes(key) ==
    \/ key = INCLUDES_KEY
    \/ starts_with(key, INCLUDES_KEY \o ".")
    \/ ends_with(key, "." \o INCLUDES_KEY)
    \/ contains(key, "." \o INCLUDES_KEY \o ".")

\* the value holds, at some level of its maps, a key named includes
RECURSIVE stores_includes(_)
stores_includes(value) ==
    CASE value.variant = "Map" ->
            \E k \in DOMAIN value.map : names_includes(k) \/ stores_includes(value.map[k])
      [] value.variant = "Array" ->
            \E i \in 1..Len(value.elems) : stores_includes(value.elems[i])
      [] OTHER -> FALSE

\* no key named includes is among the stored values
includes_never_stored ==
    \A i \in 1..Len(toml_out.config.values) :
        /\ ~names_includes(toml_out.config.values[i].key)
        /\ ~stores_includes(toml_out.config.values[i].value)

\* C16 as stated: a key named includes is never stored, at any nesting level;
\* the includes output holds the string value, or the string elements of the
\* array value, of every such key in document order, other values and
\* elements being dropped without error.
C16_IncludesAtAnyLevel ==
    toml_pc = "done" /\ toml_out.ok =>
        /\ includes_never_stored
        /\ toml_out.config.includes = all_includes(toml_in.content.doc)

\* C16: a key named includes is never stored, at any nesting level; the
\* includes output holds the string value, or the string elements of the
\* array value, of every such key of a table nested at most MAX_TOML_DEPTH
\* levels deep, in document order, other values and elements being dropped
\* without error; the includes keys of deeper tables are pruned with them.
C16_IncludesNeverData ==
    toml_pc = "done" /\ toml_out.ok =>
        /\ includes_never_stored
        /\ toml_out.config.includes = all_includes(without_over_depth(toml_in.content.doc, 0))

\* includes inside an element of an array of tables, as an array with a
\* number among its strings, and again as a string at the root
C16_Witness ==
    /\ toml_pc = "done"
    /\ toml_out.ok
    /\ toml_out.config.includes = <<"a.toml", "b.toml", "z.toml">>
    /\ \E i \in 1..Len(toml_in.content.doc.entries) :
          /\ toml_in.content.doc.entries[i].item.item = "ArrayOfTables"
          /\ all_includes(toml_in.content.doc.entries[i].item) = <<"a.toml", "b.toml">>
    /\ Len(toml_out.config.values) = 2




\* the arrays of tables of an item that are not inside an element of another
\* one, each with its path and nesting level
RECURSIVE arrays_of_tables(_, _, _)
arrays_of_tables_of_entries(entries, path, depth) ==
    UNION {arrays_of_tables(entries[i].item, Append(path, entries[i].key), depth + 1)
              : i \in 1..Len(entries)}

arrays_of_tables(item, path, depth) ==
    CASE item.item = "Table" -> arrays_of_tables_of_entries(item.entries, path, depth)
      [] item.item = "Value" /\ item.value.type = "InlineTable" ->
            arrays_of_tables_of_entries(item.value.entries, path, depth)
      [] item.item = "ArrayOfTables" -> {[path |-> path, arr |-> item, depth |-> depth]}
      [] OTHER -> {}

\* the value of a scalar item
scalar_value(item) ==
    IF item.item = "None" THEN Null
    ELSE IF from_toml_value(item.value).ok THEN from_toml_value(item.value).value
    ELSE Null

\* what an element table holds, with keys relative to the element: pairs of
\* a dotted key and a value; an array of tables of the element is one key
\* whose value is the array of the maps of its own elements
RECURSIVE relative_pairs(_, _)
RECURSIVE relative_array(_)
relative_pairs_of_entries(entries, path) ==
    UNION {IF entries[i].key = INCLUDES_KEY THEN {}
           ELSE relative_pairs(entries[i].item, Append(path, entries[i].key))
              : i \in 1..Len(entries)}

relative_pairs(item, path) ==
    CASE item.item = "Table" -> relative_pairs_of_entries(item.entries, path)
      [] item.item = "Value" /\ item.value.type = "InlineTable" ->
            relative_pairs_of_entries(item.value.entries, path)
      [] item.item = "ArrayOfTables" -> {<<join_dot(path), relative_array(item)>>}
      [] OTHER -> {<<join_dot(path), scalar_value(item)>>}

relative_map(table) ==
    LET pairs == relative_pairs(table, <<>>)
    IN  Map([k \in {pair[1] : pair \in pairs} |->
                (CHOOSE pair \in pairs : pair[1] = k)[2]])

relative_array(arr) == Array([k \in 1..Len(arr.tables) |-> relative_map(arr.tables[k])])

\* the stored value has the shape of the expected one: arrays of the same
\* length element by element, maps with keys of the expected map only (all of
\* them when complete), equal scalars
RECURSIVE shaped_as(_, _, _)
shaped_as(value, expected, complete) ==
    CASE expected.variant = "Array" ->
            /\ value.variant = "Array"
            /\ Len(value.elems) = Len(expected.elems)
            /\ \A i \in 1..Len(value.elems) :
                  shaped_as(value.elems[i], expected.elems[i], complete)
      [] expected.variant = "Map" ->
            /\ value.variant = "Map"
            /\ DOMAIN value.map \subseteq DOMAIN expected.map
            /\ complete => DOMAIN value.map = DOMAIN expected.map
            /\ \A k \in DOMAIN value.map : shaped_as(value.map[k], expected.map[k], complete)
      [] OTHER -> value = expected

\* the array of tables a is stored under its own path as the array of the
\* maps of its elements, and under no longer key
stored_as_array_of_maps(a) ==
    LET values == toml_out.config.values
        P == join_dot(a.path)
    IN  /\ map_contains(values, P)
        /\ shaped_as(map_get(values, P).value, relative_array(a.arr),
                     ~has_over_depth_subtree(toml_in.content.doc))
        /\ \A i \in 1..Len(values) : ~starts_with(values[i].key, P \o ".")

RECURSIVE written_inline(_)
inline_table_of(table) ==
    TomlInlineTable([i \in 1..Len(table.entries) |->
        entry(table.entries[i].key, written_inline(table.entries[i].item))])

written_inline(item) ==
    CASE item.item = "Table" -> ItemValue(inline_table_of(item))
      [] item.item = "ArrayOfTables" ->
            ItemValue(TomlArray([k \in 1..Len(item.tables) |-> inline_table_of(item.tables[k])]))
      [] OTHER -> item

\* the item holds an array of tables
RECURSIVE holds_array_of_tables(_)
holds_array_of_tables(item) ==
    CASE item.item = "Table" ->
            \E i \in 1..Len(item.entries) : holds_array_of_tables(item.entries[i].item)
      [] item.item = "Value" /\ item.value.type = "InlineTable" ->
            \E i \in 1..Len(item.value.entries) :
                holds_array_of_tables(item.value.entries[i].item)
      [] item.item = "ArrayOfTables" -> TRUE
      [] OTHER -> FALSE

\* the lists of entries that differ from the given one in one table, or one
\* array of tables when arrays_too, being written inline
RECURSIVE inline_variants(_, _)
inner_variants(item, arrays_too) ==
    CASE item.item = "Table" ->
            {ItemTable(es) : es \in inline_variants(item.entries, arrays_too)}
      [] item.item = "ArrayOfTables" ->
            UNION {{ItemArrayOfTables([item.tables EXCEPT ![k] = ItemTable(es)]) :
                       es \in inline_variants(item.tables[k].entries, arrays_too)} :
                   k \in 1..Len(item.tables)}
      [] OTHER -> {}

inline_variants(entries, arrays_too) ==
    UNION {LET item == entries[i].item
               here == IF \/ item.item = "ArrayOfTables" /\ arrays_too
                          \/ item.item = "Table" /\ (arrays_too \/ ~holds_array_of_tables(item))
                       THEN {written_inline(item)}
                       ELSE {}
           IN  {[entries EXCEPT ![i].item = v] :
                    v \in here \cup inner_variants(item, arrays_too)} :
           i \in 1..Len(entries)}

\* parse_and_collect gives the returned ParsedFile for every text of the set
same_parsed_file(docs) ==
    \A es \in docs :
        parse_and_collect_text([valid |-> toml_in.content.valid, doc |-> ItemTable(es)],
                               toml_in.prefix, toml_in.file_idx) = toml_out

\* C27: a document in which one table, or one array of tables, is written
\* inline yields the same ParsedFile (keys, values, includes, Full or Pruned,
\* or the same error) as the document with regular tables, wherever the table
\* stands, also when the inline tables are the elements of an array.
C27_InlineTablesEquivalent ==
    toml_pc = "done" => same_parsed_file(inline_variants(toml_in.content.doc.entries, TRUE))

\* the same for the tables that hold no array of tables
C27_EquivalentOutsideArrays ==
    toml_pc = "done" => same_parsed_file(inline_variants(toml_in.content.doc.entries, FALSE))

\* the items of a document below its root, the elements of its arrays of
\* tables among them: the key path of each, the number of levels down to it
\* (an array of tables is one level and its elements are one level further
\* down), whether it is reached through tables only, whether it is an
\* `includes` key or lies under one, and whether it is a scalar
RECURSIVE doc_items(_, _, _, _, _)
doc_items(entries, path, levels, plain, directive) ==
    UNION {LET e == entries[i]
               p == Append(path, e.key)
               d == directive \/ e.key = INCLUDES_KEY
               tabular == \/ e.item.item \in {"Table", "ArrayOfTables"}
                          \/ e.item.item = "Value" /\ e.item.value.type = "InlineTable"
               below ==
                   CASE e.item.item = "Table" ->
                           doc_items(e.item.entries, p, levels + 1, plain, d)
                     [] e.item.item = "Value" /\ e.item.value.type = "InlineTable" ->
                           doc_items(e.item.value.entries, p, levels + 1, plain, d)
                     [] e.item.item = "ArrayOfTables" ->
                           UNION {{[path |-> p, level |-> levels + 2, plain |-> FALSE,
                                    directive |-> d, scalar |-> FALSE]}
                                     \cup doc_items(e.item.tables[k].entries, p,
                                                    levels + 2, FALSE, d) :
                                  k \in 1..Len(e.item.tables)}
                     [] OTHER -> {}
           IN  {[path |-> p, level |-> levels + 1, plain |-> plain,
                 directive |-> d, scalar |-> ~tabular]} \cup below :
           i \in 1..Len(entries)}

parsed_items == doc_items(toml_in.content.doc.entries, <<>>, 0, TRUE, FALSE)
data_items == {it \in parsed_items : ~it.directive}

\* the dotted key of the item under the caller's prefix, written out
RECURSIVE dotted(_)
dotted(path) == IF Len(path) = 1 THEN path[1] ELSE dotted(SubSeq(path, 1, Len(path) - 1)) \o "." \o path[Len(path)]

is_stored(it) == map_contains(toml_out.config.values, dotted(toml_in.prefix \o it.path))

parsed_ok == toml_pc = "done" /\ toml_out.ok

\* C28 as claimed: a scalar reached through tables is stored if and only if
\* its key has at most MAX_TOML_DEPTH segments below the prefix; any value or
\* table whose key has more segments is not stored and makes the result
\* Pruned; a document whose deepest item has at most MAX_TOML_DEPTH segments
\* yields Full.
C28_ExactDepthBoundary ==
    parsed_ok =>
        /\ \A it \in parsed_items :
              (it.scalar /\ it.plain) => (is_stored(it) <=> Len(it.path) <= MAX_TOML_DEPTH)
        /\ \A it \in parsed_items :
              Len(it.path) > MAX_TOML_DEPTH =>
                  ~is_stored(it) /\ toml_out.result = "Pruned"
        /\ (\A it \in parsed_items : Len(it.path) <= MAX_TOML_DEPTH) =>
              toml_out.result = "Full"

\* C28 amended: leaving aside `includes` keys and what lies under them, a
\* scalar reached through tables is stored if and only if its key has at most
\* MAX_TOML_DEPTH segments below the prefix, and any value or table reached
\* through tables whose key has more segments is not stored and makes the
\* result Pruned; no stored key has more than MAX_TOML_DEPTH segments below
\* the prefix; the result is Pruned exactly when some item lies more than
\* MAX_TOML_DEPTH levels down, the elements of an array of tables lying one
\* level below the array, so a document without arrays of tables whose deepest
\* item has at most MAX_TOML_DEPTH segments yields Full.
C28_DepthBoundary ==
    parsed_ok =>
        /\ \A it \in data_items :
              (it.scalar /\ it.plain) => (is_stored(it) <=> Len(it.path) <= MAX_TOML_DEPTH)
        /\ \A it \in data_items :
              (it.plain /\ Len(it.path) > MAX_TOML_DEPTH) =>
                  ~is_stored(it) /\ toml_out.result = "Pruned"
        /\ \A i \in 1..Len(toml_out.config.values) :
              segments(toml_out.config.values[i].key) <= Len(toml_in.prefix) + MAX_TOML_DEPTH
        /\ toml_out.result = "Pruned" <=> \E it \in data_items : it.level > MAX_TOML_DEPTH
        /\ (\A it \in data_items : it.plain /\ Len(it.path) <= MAX_TOML_DEPTH) =>
              toml_out.result = "Full"

\* a scalar whose key has exactly MAX_TOML_DEPTH segments is stored and the
\* result is Full
C28_Witness ==
    /\ parsed_ok
    /\ toml_out.result = "Full"
    /\ \E it \in data_items :
          it.scalar /\ it.plain /\ Len(it.path) = MAX_TOML_DEPTH /\ is_stored(it)

\* a scalar whose key has MAX_TOML_DEPTH + 1 segments is not stored
C28_WitnessPruned ==
    /\ parsed_ok
    /\ toml_out.result = "Pruned"
    /\ \E it \in data_items :
          it.scalar /\ it.plain /\ Len(it.path) = MAX_TOML_DEPTH + 1 /\ ~is_stored(it)

\* the key paths of the items that are stored, in the order in which the
\* document lists them: tables are gone through entry by entry, an array of
\* tables and a scalar are one item each, `includes` keys and what lies
\* beyond MAX_TOML_DEPTH are left out
RECURSIVE traversal_order(_, _, _)
traversal_order(entries, path, levels) ==
    IF entries = <<>> THEN <<>>
    ELSE LET e == Head(entries)
             p == Append(path, e.key)
             mine ==
                 IF e.key = INCLUDES_KEY \/ levels + 1 > MAX_TOML_DEPTH THEN <<>>
                 ELSE CASE e.item.item = "Table" ->
                             traversal_order(e.item.entries, p, levels + 1)
                        [] e.item.item = "Value" /\ e.item.value.type = "InlineTable" ->
                             traversal_order(e.item.value.entries, p, levels + 1)
                        [] OTHER -> <<p>>
         IN  mine \o traversal_order(Tail(entries), path, levels)

\* the prefix segments joined by dots come first in the key
under_prefix(key, prefix) ==
    \/ prefix = <<>>
    \/ key = dotted(prefix)
    \/ starts_with(key, dotted(prefix) \o ".")

\* C29: every entry of the values parse_and_collect(content, prefix,
\* file_idx) returns carries the file_idx of the call, its key starts with the
\* prefix segments joined by dots, and the entries stand in the order in which
\* the document lists the items.
C29_TaggingAndPrefixing ==
    parsed_ok =>
        LET values == toml_out.config.values
            order == traversal_order(toml_in.content.doc.entries, <<>>, 0)
        IN  /\ \A i \in 1..Len(values) :
                  /\ values[i].file_idx = toml_in.file_idx
                  /\ under_prefix(values[i].key, toml_in.prefix)
            /\ Len(values) = Len(order)
            /\ \A i \in 1..Len(values) : values[i].key = dotted(toml_in.prefix \o order[i])

\* a document parsed under the prefix `arcella` as file 2 with entries before,
\* inside and after a nested table
C29_Witness ==
    /\ parsed_ok
    /\ toml_in.prefix = <<"arcella">>
    /\ toml_in.file_idx = 2
    /\ Len(toml_out.config.values) >= 4
    /\ toml_out.config.values[1].key = "arcella.first"
    /\ toml_out.config.values[Len(toml_out.config.values)].key = "arcella.last"

-----------------------------------------------------------------------------
(* Properties of the loader on texts that parse_and_collect rejects        *)

\* the value is of a type that from_toml_value does not convert
RECURSIVE unsupported(_)
unsupported(value) ==
    CASE value.type = "Datetime" -> TRUE
      [] value.type = "InlineTable" -> TRUE
      [] value.type = "Array" -> \E i \in 1..Len(value.elems) : unsupported(value.elems[i])
      [] OTHER -> FALSE

\* the item holds a value of an unsupported type, wherever
RECURSIVE holds_unsupported(_)
holds_unsupported(item) ==
    CASE item.item = "Table" ->
            \E i \in 1..Len(item.entries) : holds_unsupported(item.entries[i].item)
      [] item.item = "Value" /\ item.value.type = "InlineTable" ->
            \E i \in 1..Len(item.value.entries) : holds_unsupported(item.value.entries[i].item)
      [] item.item = "ArrayOfTables" ->
            \E k \in 1..Len(item.tables) : holds_unsupported(item.tables[k])
      [] item.item = "Value" /\ item.value.type # "InlineTable" -> unsupported(item.value)
      [] OTHER -> FALSE

\* the item, at the given level, holds a value of an unsupported type under
\* a key other than includes and at most MAX_TOML_DEPTH levels deep
RECURSIVE holds_unsupported_data(_, _)
holds_unsupported_data(item, depth) ==
    IF depth > MAX_TOML_DEPTH THEN FALSE
    ELSE CASE item.item = "Table" ->
                \E i \in 1..Len(item.entries) :
                    /\ item.entries[i].key # INCLUDES_KEY
                    /\ holds_unsupported_data(item.entries[i].item, depth + 1)
           [] item.item = "Value" /\ item.value.type = "InlineTable" ->
                \E i \in 1..Len(item.value.entries) :
                    /\ item.value.entries[i].key # INCLUDES_KEY
                    /\ holds_unsupported_data(item.value.entries[i].item, depth + 1)
           [] item.item = "ArrayOfTables" ->
                \E k \in 1..Len(item.tables) : holds_unsupported_data(item.tables[k], depth + 1)
           [] item.item = "Value" /\ item.value.type # "InlineTable" -> unsupported(item.value)
           [] OTHER -> FALSE

\* the files of the directory whose text is given
files_with_text == {p \in DOMAIN fs : fs[p].kind = "file" /\ "text" \in DOMAIN fs[p]}

\* the call that runs next reads and parses the file p
reads_file(p) == will_read /\ call.config_file_path = p /\ read_ok(p)

\* a failed load has no result and reads nothing more
failed_load_is_final ==
    load_status = "Err" =>
        /\ stack = <<>>
        /\ load_configs = <<>>
        /\ ~ENABLED LoadNext

\* C18 as stated: a text that is not valid TOML or holds a value of an
\* unsupported type (a datetime, also inside an array) makes parse_and_collect
\* return Err(TOML) with no partial result, and a load that reaches such a
\* file returns Err at once and reads no further include.
C18_AnyUnsupportedValueIsFatal ==
    /\ [](\A p \in files_with_text :
            ~fs[p].text.valid \/ holds_unsupported(fs[p].text.doc) =>
                parse_and_collect_text(fs[p].text, params.prefix, 0)
                    = [ok |-> FALSE, error |-> TomlError])
    /\ [][\A p \in files_with_text :
            reads_file(p) /\ (~fs[p].text.valid \/ holds_unsupported(fs[p].text.doc)) =>
                /\ load_status' = "Err"
                /\ load_error' = Some(TomlError)]_vars
    /\ []failed_load_is_final

\* C18: a text that is not valid TOML, or holds a value of an unsupported
\* type (a datetime, also inside an array) under a key other than includes
\* and at most MAX_TOML_DEPTH levels deep, makes parse_and_collect return
\* Err(TOML) with no partial result, and a load that reaches such a file
\* returns Err at once and reads no further include; any other text parses.
C18_FatalParseErrors ==
    /\ [](\A p \in files_with_text :
            IF ~fs[p].text.valid \/ holds_unsupported_data(fs[p].text.doc, 0)
            THEN parse_and_collect_text(fs[p].text, params.prefix, 0)
                    = [ok |-> FALSE, error |-> TomlError]
            ELSE parse_and_collect_text(fs[p].text, params.prefix, 0).ok)
    /\ [][\A p \in files_with_text :
            reads_file(p) =>
                IF ~fs[p].text.valid \/ holds_unsupported_data(fs[p].text.doc, 0)
                THEN /\ load_status' = "Err"
                     /\ load_error' = Some(TomlError)
                     /\ read_log' = Append(read_log, p)
                ELSE load_status' = "running"]_vars
    /\ []failed_load_is_final

\* the third file of the chain has a datetime inside an array: the load
\* fails on it with TOML and the file it includes is never read
C18_Witness ==
    /\ load_status = "Err"
    /\ load_error = Some(TomlError)
    /\ parse_log = <<chain_path(0), chain_path(1), chain_path(2)>>
    /\ chain_path(2) \in files_with_text
    /\ holds_unsupported_data(fs[chain_path(2)].text.doc, 0)
    /\ all_includes(fs[chain_path(2)].text.doc) = <<"level_3.toml">>
    /\ chain_path(3) \in DOMAIN fs
    /\ chain_path(3) \notin Range(read_log)




-----------------------------------------------------------------------------
(* Properties of the loader on the paths of included files                 *)

\* the include patterns a loaded file declares
declared_includes(path) ==
    {fs[path].content.includes[i] : i \in 1..Len(fs[path].content.includes)}

\* the pattern joined to the configuration directory, or the pattern itself
\* when it is absolute
against_base(pattern) ==
    IF char_at(pattern, 1) = "/" THEN pattern ELSE config_dir \o "/" \o pattern

\* the file of the same name beside the including file
beside(path, pattern) == parent(path) \o "/" \o pattern

\* the paths the loop of an active call goes through
paths_to_load(frame) == {frame.include_paths[i] : i \in 1..Len(frame.include_paths)}

\* C30: the paths a loaded file makes the loader go through are its include
\* patterns joined to ConfigLoadParams::config_dir, or the patterns as they
\* are when absolute, and the files directly inside such a path that is a
\* directory, whatever directory the including file lies in: every such
\* target that is a TOML file is gone through, and the file of the same name
\* beside an including file of a subdirectory is not, unless the patterns
\* name it from the base directory.
C30_IncludesResolveAgainstBase ==
    \A k \in 1..Len(stack) :
        LET frame == stack[k]
            patterns == declared_includes(frame.config_file_path)
            targets == {against_base(pattern) : pattern \in patterns}
        IN  /\ \A q \in paths_to_load(frame) :
                  \/ q \in targets
                  \/ parent(q) \in targets /\ Path_is_dir(parent(q))
            /\ \A t \in targets :
                  (Path_is_file(t) /\ toml_named(t)) => t \in paths_to_load(frame)
            /\ \A pattern \in patterns :
                  LET sibling == beside(frame.config_file_path, pattern)
                  IN  (char_at(pattern, 1) # "/" /\ sibling # against_base(pattern)) =>
                          sibling \notin paths_to_load(frame)

\* conf.d/A.TOML has sent the loader to level_1.toml of the configuration
\* directory while conf.d holds a level_1.toml of its own, and conf.d/b.toml
\* has sent it to the file it names by an absolute path
C30_Witness ==
    /\ load_status = "Ok"
    /\ \E i, j, k \in 1..Len(read_log) :
          /\ i < j /\ j < k
          /\ read_log[i] = "config/conf.d/A.TOML"
          /\ read_log[j] = "config/level_1.toml"
          /\ read_log[k] = "/etc/arcella/site.toml"
    /\ "level_1.toml" \in declared_includes("config/conf.d/A.TOML")
    /\ Path_is_file("config/conf.d/level_1.toml")
    /\ "config/conf.d/level_1.toml" \in Range(read_log)

-----------------------------------------------------------------------------
(* The ALME connection handler (arcella/src/alme/server.rs)                *)

MaxLines == 3

\* 64 * 1024
MAX_REQUEST_LENGTH == 65536

\* AlmeResponse::success / AlmeResponse::error
AlmeSuccess(message) == [success |-> TRUE, message |-> message]
AlmeError(message) == [success |-> FALSE, message |-> message]

ArcellaIoError == [type |-> "Io"]

\* a line as the client sends it: its text, and the number of further bytes
\* of filling it carries before the line end
client_line(text, filling) == [text |-> text, filling |-> filling]

\* the n of Ok(Ok(n)): the bytes read_line appended to the buffer
bytes_read(line) == Len(line.text) + line.filling

\* str::trim_end_matches(&['\r', '\n'])
RECURSIVE trim_end_matches(_, _)
trim_end_matches(s, chars) ==
    IF Len(s) > 0 /\ char_at(s, Len(s)) \in chars
    THEN trim_end_matches(SubSeq(s, 1, Len(s) - 1), chars)
    ELSE s

RECURSIVE trim_start_matches(_, _)
trim_start_matches(s, chars) ==
    IF Len(s) > 0 /\ char_at(s, 1) \in chars
    THEN trim_start_matches(SubSeq(s, 2, Len(s)), chars)
    ELSE s

Whitespace == {" ", "\t", "\r", "\n"}

\* str::trim
trim(s) == trim_start_matches(trim_end_matches(s, Whitespace), Whitespace)

\* buffer.trim_end_matches(&['\r', '\n']).trim() (line 213)
trimmed(line) == trim(trim_end_matches(line.text, {"\r", "\n"}))

\* serde_json::from_str::<AlmeRequest>: the request, or None when the text is
\* not the JSON of a request
from_str(text) ==
    CASE text = "{cmd:ping}" -> Some([cmd |-> "ping"])
      [] text = "{cmd:bogus}" -> Some([cmd |-> "bogus"])
      [] OTHER -> None

\* commands.rs lines 46-59, for the commands of the model
dispatch_command(cmd) ==
    IF cmd = "ping" THEN AlmeSuccess("pong")
    ELSE AlmeError("Unknown command: " \o cmd)

\* lines 264-287: the value send_response returns when the write of the
\* serialized response succeeds or fails (the result of write_all is dropped
\* by `let _ =`)
send_response(write_ok) == [ok |-> TRUE]

\* the lines a client sends: a command, an unknown command, a text that is
\* not JSON, an empty line, a line of blanks, and a command and a line of
\* blanks filled up to more than MAX_REQUEST_LENGTH bytes
ClientLines ==
    {client_line("{cmd:ping}\n", 0),
     client_line("{cmd:bogus}\n", 0),
     client_line("not json\n", 0),
     client_line("\n", 0),
     client_line("  \r\n", 0),
     client_line("{cmd:ping}\n", MAX_REQUEST_LENGTH),
     client_line("  \n", MAX_REQUEST_LENGTH)}

AlmeInit ==
    \E lines \in seqs_upto(ClientLines, MaxLines) :
        /\ alme_pc = "serving"
        /\ client_lines = lines
        /\ lines_read = <<>>
        /\ write_log = <<>>
        /\ responses = <<>>
        /\ handler_result = None
        /\ fs = <<>>
        /\ MergeIdle
        /\ LoadIdle
        /\ ScanIdle
        /\ TomlIdle
        /\ ServerIdle
        /\ MoreIdle

alme_frame == UNCHANGED <<merge_vars, load_vars, scan_vars, toml_vars, server_vars, more_vars>>

\* reader.read_line returned Ok(n) with n > 0: the next line of the client
read_line ==
    /\ alme_pc = "serving"
    /\ client_lines # <<>>
    /\ lines_read' = Append(lines_read, Head(client_lines))
    /\ client_lines' = Tail(client_lines)

\* send_response(&mut writer, &resp).await? for the line just read: the write
\* succeeds or fails, and the handler goes on or returns the error
respond(resp) ==
    \E write_ok \in BOOLEAN :
        /\ write_log' = Append(write_log, [request |-> Len(lines_read'), ok |-> write_ok])
        /\ responses' = IF write_ok
                        THEN Append(responses, [request |-> Len(lines_read'), response |-> resp])
                        ELSE responses
        /\ IF send_response(write_ok).ok
           THEN /\ alme_pc' = "serving"
                /\ UNCHANGED handler_result
           ELSE /\ alme_pc' = "returned"
                /\ handler_result' = Some([ok |-> FALSE, error |-> ArcellaIoError])

\* the handler returns
return(result) ==
    /\ alme_pc' = "returned"
    /\ handler_result' = Some(result)

\* lines 204-206: Ok(Ok(0)), the client closed the connection
ReadEof ==
    /\ alme_pc = "serving"
    /\ client_lines = <<>>
    /\ return([ok |-> TRUE])
    /\ UNCHANGED <<client_lines, lines_read, write_log, responses>>
    /\ alme_frame

\* lines 208-214: the line is longer than MAX_REQUEST_LENGTH
ReadTooLarge ==
    /\ read_line
    /\ bytes_read(Head(client_lines)) > MAX_REQUEST_LENGTH
    /\ respond(AlmeError("Request too large"))
    /\ alme_frame

\* lines 215-218: nothing is left of the line after trimming
ReadBlank ==
    /\ read_line
    /\ bytes_read(Head(client_lines)) <= MAX_REQUEST_LENGTH
    /\ trimmed(Head(client_lines)) = ""
    /\ UNCHANGED <<alme_pc, write_log, responses, handler_result>>
    /\ alme_frame

\* lines 242-251: the line is not the JSON of a request
ReadInvalidJson ==
    /\ read_line
    /\ bytes_read(Head(client_lines)) <= MAX_REQUEST_LENGTH
    /\ trimmed(Head(client_lines)) # ""
    /\ from_str(trimmed(Head(client_lines))) = None
    /\ respond(AlmeError("Invalid JSON"))
    /\ alme_frame

\* lines 242-257: the request is dispatched and its response sent
ReadRequest ==
    /\ read_line
    /\ bytes_read(Head(client_lines)) <= MAX_REQUEST_LENGTH
    /\ trimmed(Head(client_lines)) # ""
    /\ from_str(trimmed(Head(client_lines))) # None
    /\ respond(dispatch_command(from_str(trimmed(Head(client_lines)))[1].cmd))
    /\ alme_frame

\* lines 221-224: Ok(Err(e)), reading the stream failed
ReadIoError ==
    /\ alme_pc = "serving"
    /\ return([ok |-> FALSE, error |-> ArcellaIoError])
    /\ UNCHANGED <<client_lines, lines_read, write_log, responses>>
    /\ alme_frame

\* lines 225-230: no line within MAX_READER_TIMEOUT seconds
ReaderTimeout ==
    /\ alme_pc = "serving"
    /\ client_lines = <<>>
    /\ return([ok |-> TRUE])
    /\ UNCHANGED <<client_lines, lines_read, write_log, responses>>
    /\ alme_frame

\* lines 233-238: the shutdown signal arrived
ShutdownSignal ==
    /\ alme_pc = "serving"
    /\ return([ok |-> TRUE])
    /\ UNCHANGED <<client_lines, lines_read, write_log, responses>>
    /\ alme_frame

AlmeNext ==
    \/ ReadEof
    \/ ReadTooLarge
    \/ ReadBlank
    \/ ReadInvalidJson
    \/ ReadRequest
    \/ ReadIoError
    \/ ReaderTimeout
    \/ ShutdownSignal

SpecAlme == AlmeInit /\ [][AlmeNext]_vars


-----------------------------------------------------------------------------
(* Properties of the ALME connection handler                               *)

\* the line is neither empty nor made of blanks only; a line over the length
\* limit counts as a request whatever fills it
non_empty(line) ==
    \/ bytes_read(line) > MAX_REQUEST_LENGTH
    \/ \E i \in 1..Len(line.text) : char_at(line.text, i) \notin Whitespace

\* the positions in lines_read of the lines that ask for a response
requests_read == {i \in 1..Len(lines_read) : non_empty(lines_read[i])}

\* the responses the client has received answer the first requests read, in
\* the order of the requests
responses_in_request_order ==
    /\ Len(responses) <= Cardinality(requests_read)
    /\ \A j \in 1..Len(responses) :
          /\ responses[j].request \in requests_read
          /\ Cardinality({i \in requests_read : i < responses[j].request}) = j - 1

\* the client has received one response for each request read, in the order
\* of the requests
one_response_each_in_order ==
    /\ Len(responses) = Cardinality(requests_read)
    /\ responses_in_request_order

\* the handler reads an empty line or a line of blanks
reads_blank_line ==
    /\ alme_pc = "serving"
    /\ client_lines # <<>>
    /\ ~non_empty(Head(client_lines))
    /\ lines_read' = Append(lines_read, Head(client_lines))

\* C19: while the handler serves a connection, every non-empty request line
\* it has read (valid command, unknown command, invalid JSON, over-long line)
\* has received exactly one response, the responses came in the order of the
\* requests, and an empty or blank line gets no response and leaves the
\* connection open.
C19_RequestResponseOrdering ==
    /\ []responses_in_request_order
    /\ [](alme_pc = "serving" => one_response_each_in_order)
    /\ [][reads_blank_line => alme_pc' = "serving" /\ responses' = responses]_vars

\* the same as long as no write has failed
C19_OrderingWhileWritesSucceed ==
    /\ []((\A k \in 1..Len(write_log) : write_log[k].ok)
            => /\ responses_in_request_order
               /\ alme_pc = "serving" => one_response_each_in_order)
    /\ [][reads_blank_line => alme_pc' = "serving" /\ responses' = responses]_vars

\* C20: when the write of a response fails, send_response returns an error
\* and handle_connection stops serving the connection: a failed write is the
\* last thing the handler did, and it returned the error.
C20_WriteFailureEndsConnection ==
    \A k \in 1..Len(write_log) :
        ~write_log[k].ok =>
            /\ k = Len(write_log)
            /\ alme_pc = "returned"
            /\ handler_result = Some([ok |-> FALSE, error |-> ArcellaIoError])




















-----------------------------------------------------------------------------
(* The ALME server: spawn_server, run_server_loop, AlmeServerHandle        *)
(*                                                                         *)
(* The state is the one spawn_server leaves behind when it returns Ok: the *)
(* listener is bound, the socket file exists, the task running             *)
(* run_server_loop is spawned and the caller holds the AlmeServerHandle.   *)
(* Each connection has its handle_connection task, reduced here to the     *)
(* places where it awaits: the select! at the head of its loop, the        *)
(* dispatch of a command and the write of a response.                      *)

\* how many clients ever connect
MaxConns == 2

Conns == 1 .. MaxConns

\* a connection nobody has opened
no_connection == [pc |-> "none", shutdown_rx |-> "none", peer |-> "none", line |-> FALSE]

\* broadcast::Sender::send followed by the drop of the sender (mod.rs lines
\* 28-31 and 41-44): a receiver that exists gets the message, and finds the
\* channel closed after it
send_and_drop(rx) == IF rx = "open" THEN "signalled" ELSE rx

\* broadcast::Receiver::resubscribe (server.rs line 143): the new receiver sees
\* only what is sent after the call; with the sender gone its channel is closed
resubscribe == IF shutdown_tx = "Some" THEN "open" ELSE "closed"

\* shutdown_rx.recv() is ready: Ok(()) for a message, Err(Closed) without sender
recv_ready(rx) == rx \in {"signalled", "closed"}

ServerInit ==
    /\ server_pc = "accepting"
    /\ socket_file = TRUE
    /\ shutdown_tx = "Some"
    /\ join_handle = "held"
    /\ shutdown_rx = "open"
    /\ handlers = [c \in Conns |-> no_connection]

server_frame == UNCHANGED <<merge_vars, load_vars, scan_vars, toml_vars, alme_vars, more_vars>>

\* ---- the clients ----

\* connect(2) on the socket: the connection waits in the listener's backlog
ClientConnects(c) ==
    /\ server_pc = "accepting"
    /\ handlers[c].pc = "none"
    /\ handlers' = [handlers EXCEPT ![c] = [pc |-> "pending", shutdown_rx |-> "none",
                                            peer |-> "reading", line |-> FALSE]]
    /\ UNCHANGED <<server_pc, socket_file, shutdown_tx, join_handle, shutdown_rx>>
    /\ server_frame

\* the client writes one line
ClientSendsLine(c) ==
    /\ handlers[c].pc \in {"pending", "select", "dispatch", "write"}
    /\ handlers[c].peer # "closed"
    /\ ~handlers[c].line
    /\ handlers' = [handlers EXCEPT ![c].line = TRUE]
    /\ UNCHANGED <<server_pc, socket_file, shutdown_tx, join_handle, shutdown_rx>>
    /\ server_frame

\* the client stops reading and the socket's buffer is full, or reads again
ClientStalls(c) ==
    /\ handlers[c].peer = "reading"
    /\ handlers' = [handlers EXCEPT ![c].peer = "stalled"]
    /\ UNCHANGED <<server_pc, socket_file, shutdown_tx, join_handle, shutdown_rx>>
    /\ server_frame

ClientResumes(c) ==
    /\ handlers[c].peer = "stalled"
    /\ handlers' = [handlers EXCEPT ![c].peer = "reading"]
    /\ UNCHANGED <<server_pc, socket_file, shutdown_tx, join_handle, shutdown_rx>>
    /\ server_frame

\* the client closes its end
ClientCloses(c) ==
    /\ handlers[c].peer \in {"reading", "stalled"}
    /\ handlers' = [handlers EXCEPT ![c].peer = "closed"]
    /\ UNCHANGED <<server_pc, socket_file, shutdown_tx, join_handle, shutdown_rx>>
    /\ server_frame

\* ---- run_server_loop (server.rs lines 129-165) ----

\* lines 138-149: the accept branch of select!, which does not look at
\* shutdown_rx; select! without `biased;` polls its branches in random order,
\* so the branch can be taken while a shutdown message waits
Accept(c) ==
    /\ server_pc = "accepting"
    /\ handlers[c].pc = "pending"
    /\ handlers' = [handlers EXCEPT ![c].pc = "select", ![c].shutdown_rx = resubscribe]
    /\ UNCHANGED <<server_pc, socket_file, shutdown_tx, join_handle, shutdown_rx>>
    /\ server_frame

\* the listener goes out of scope when run_server_loop returns: connections
\* still waiting in the backlog are refused
drop_listener == [c \in Conns |-> IF handlers[c].pc = "pending"
                                  THEN [handlers[c] EXCEPT !.pc = "refused"]
                                  ELSE handlers[c]]

\* lines 150-153: Err(e) from listener.accept(), break
AcceptError ==
    /\ server_pc = "accepting"
    /\ server_pc' = "exited"
    /\ handlers' = drop_listener
    /\ UNCHANGED <<socket_file, shutdown_tx, join_handle, shutdown_rx>>
    /\ server_frame

\* lines 156-159: `_ = shutdown_rx.recv()`, break
ListenerShutdown ==
    /\ server_pc = "accepting"
    /\ recv_ready(shutdown_rx)
    /\ server_pc' = "exited"
    /\ shutdown_rx' = "closed"
    /\ handlers' = drop_listener
    /\ UNCHANGED <<socket_file, shutdown_tx, join_handle>>
    /\ server_frame

\* ---- the task spawned by spawn_server (server.rs lines 97-106) ----

\* fs::remove_file(&socket_path_clone) after run_server_loop has returned
RemoveSocket ==
    /\ server_pc = "exited"
    /\ server_pc' = "finished"
    /\ socket_file' = FALSE
    /\ UNCHANGED <<shutdown_tx, join_handle, shutdown_rx, handlers>>
    /\ server_frame

\* ---- AlmeServerHandle (mod.rs lines 20-46) ----

signal_all == [c \in Conns |->
                  [handlers[c] EXCEPT !.shutdown_rx = send_and_drop(handlers[c].shutdown_rx)]]

\* shutdown, lines 28-31: take the sender, send, then wait for the task
Shutdown ==
    /\ join_handle = "held"
    /\ join_handle' = "awaited"
    /\ shutdown_tx' = "None"
    /\ shutdown_rx' = send_and_drop(shutdown_rx)
    /\ handlers' = signal_all
    /\ UNCHANGED <<server_pc, socket_file>>
    /\ server_frame

\* shutdown, lines 32-34: handle.await is over once the task has finished
ShutdownReturns ==
    /\ join_handle = "awaited"
    /\ server_pc = "finished"
    /\ join_handle' = "returned"
    /\ UNCHANGED <<server_pc, socket_file, shutdown_tx, shutdown_rx, handlers>>
    /\ server_frame

\* Drop, lines 39-46: the handle goes out of scope without shutdown
DropHandle ==
    /\ join_handle = "held"
    /\ join_handle' = "dropped"
    /\ shutdown_tx' = "None"
    /\ shutdown_rx' = send_and_drop(shutdown_rx)
    /\ handlers' = signal_all
    /\ UNCHANGED <<server_pc, socket_file>>
    /\ server_frame

\* ---- handle_connection (server.rs lines 188-262), where it awaits ----

handler_frame == UNCHANGED <<server_pc, socket_file, shutdown_tx, join_handle, shutdown_rx>>

\* lines 208-221 and 242-251: the read branch of select! yields a line; a blank line goes
\* back to the head of the loop, an oversized or unparsable one is answered
\* with an error response, a request is dispatched
HandlerReadsLine(c) ==
    /\ handlers[c].pc = "select"
    /\ handlers[c].line
    /\ \E next \in {"select", "write", "dispatch"} :
           handlers' = [handlers EXCEPT ![c].pc = next, ![c].line = FALSE]
    /\ handler_frame
    /\ server_frame

\* lines 204-207: Ok(Ok(0)), the client has closed and nothing is left to read
HandlerEof(c) ==
    /\ handlers[c].pc = "select"
    /\ handlers[c].peer = "closed"
    /\ ~handlers[c].line
    /\ handlers' = [handlers EXCEPT ![c].pc = "returned"]
    /\ handler_frame
    /\ server_frame

\* lines 222-225: Ok(Err(e)), the read fails
HandlerReadError(c) ==
    /\ handlers[c].pc = "select"
    /\ handlers[c].peer # "closed"
    /\ handlers' = [handlers EXCEPT ![c].pc = "returned"]
    /\ handler_frame
    /\ server_frame

\* lines 226-231: no line within MAX_READER_TIMEOUT seconds
HandlerReaderTimeout(c) ==
    /\ handlers[c].pc = "select"
    /\ ~handlers[c].line
    /\ handlers' = [handlers EXCEPT ![c].pc = "returned"]
    /\ handler_frame
    /\ server_frame

\* lines 234-239: the shutdown branch of select!
HandlerShutdown(c) ==
    /\ handlers[c].pc = "select"
    /\ recv_ready(handlers[c].shutdown_rx)
    /\ handlers' = [handlers EXCEPT ![c].pc = "returned"]
    /\ handler_frame
    /\ server_frame

\* line 254: dispatch_command(..).await is over
DispatchDone(c) ==
    /\ handlers[c].pc = "dispatch"
    /\ handlers' = [handlers EXCEPT ![c].pc = "write"]
    /\ handler_frame
    /\ server_frame

\* send_response, lines 282-286: write_all(..).await is over, with Ok when the
\* client has taken the bytes and with an error, which is dropped, when the
\* client has closed; while the client neither reads nor closes it stays pending
WriteDone(c) ==
    /\ handlers[c].pc = "write"
    /\ handlers[c].peer # "stalled"
    /\ handlers' = [handlers EXCEPT ![c].pc = "select"]
    /\ handler_frame
    /\ server_frame

ClientNext ==
    \E c \in Conns :
        \/ ClientConnects(c)
        \/ ClientSendsLine(c)
        \/ ClientStalls(c)
        \/ ClientResumes(c)
        \/ ClientCloses(c)

HandlerNext ==
    \E c \in Conns :
        \/ HandlerReadsLine(c)
        \/ HandlerEof(c)
        \/ HandlerReadError(c)
        \/ HandlerReaderTimeout(c)
        \/ HandlerShutdown(c)
        \/ DispatchDone(c)
        \/ WriteDone(c)

ServerNext ==
    \/ ClientNext
    \/ \E c \in Conns : Accept(c)
    \/ AcceptError
    \/ ListenerShutdown
    \/ RemoveSocket
    \/ Shutdown
    \/ ShutdownReturns
    \/ DropHandle
    \/ HandlerNext

ServerStart ==
    /\ fs = <<>>
    /\ MergeIdle
    /\ LoadIdle
    /\ ScanIdle
    /\ TomlIdle
    /\ AlmeIdle
    /\ MoreIdle
    /\ ServerInit

SpecServer == ServerStart /\ [][ServerNext]_vars

\* The tokio scheduler polls every task that is woken, so a step of the server
\* task or of a handler that stays possible is taken: weak fairness.  The
\* shutdown branch of a handler's select! is possible each time the handler
\* is back at the head of its loop, and the random order of select! takes it
\* with probability one: strong fairness.  Nothing is assumed of what clients
\* do, of accept errors, of read errors or of the read timeout.
ServerFairness ==
    /\ WF_vars(ListenerShutdown)
    /\ WF_vars(RemoveSocket)
    /\ WF_vars(ShutdownReturns)
    /\ \A c \in Conns : SF_vars(HandlerShutdown(c))
    /\ \A c \in Conns : WF_vars(DispatchDone(c))
    /\ \A c \in Conns : WF_vars(WriteDone(c))

SpecServerFair == SpecServer /\ ServerFairness

-----------------------------------------------------------------------------
(* Properties of the ALME server                                           *)

\* AlmeServerHandle::shutdown has been called
shutdown_called == join_handle \in {"awaited", "returned"}

\* run_server_loop takes a connection from the listener
accepts_connection == \E c \in Conns : handlers[c].pc = "pending" /\ handlers'[c].pc = "select"

\* the handler of c was running when the shutdown message was sent: its
\* receiver holds the message
active_at_shutdown(c) == shutdown_called /\ handlers[c].shutdown_rx = "signalled"

no_accept_after_shutdown == [][shutdown_called => ~accepts_connection]_vars

accept_loop_exits == shutdown_called ~> (server_pc # "accepting")

active_handlers_terminate ==
    \A c \in Conns : active_at_shutdown(c) ~> (handlers[c].pc = "returned")

socket_removed_after_exit == [][socket_file /\ ~socket_file' => server_pc = "exited"]_vars

shutdown_returns == (join_handle = "awaited") ~> (join_handle = "returned")

\* C21: after AlmeServerHandle::shutdown is called the accept loop accepts no
\* further connection and exits, every connection handler active at that
\* moment eventually terminates, the socket file is removed only after the
\* accept loop has exited, and shutdown() eventually returns.
C21_GracefulShutdown ==
    /\ no_accept_after_shutdown
    /\ accept_loop_exits
    /\ active_handlers_terminate
    /\ socket_removed_after_exit
    /\ shutdown_returns

\* C21, what holds of the server task and of shutdown(): the accept loop exits,
\* the socket file is removed only after that, and shutdown() returns.
C21_ServerTaskShutsDown ==
    /\ accept_loop_exits
    /\ socket_removed_after_exit
    /\ shutdown_returns

\* C21, what holds of the handlers: a handler active when shutdown is called
\* terminates provided its client, from some moment on, takes what is written
\* to it or has closed.
C21_HandlersTerminateWhileClientsRead ==
    \A c \in Conns :
        <>[](handlers[c].peer # "stalled")
            => (active_at_shutdown(c) ~> (handlers[c].pc = "returned"))

\* C21: a state after shutdown() has returned, with a handler that was active
\* when it was called
C21_Witness ==
    /\ join_handle = "returned"
    /\ ~socket_file
    /\ \E c \in Conns : handlers[c].shutdown_rx = "signalled" /\ handlers[c].pc = "returned"





























-----------------------------------------------------------------------------
(* ConfigData: the section index over a flat map of dotted keys            *)
(* (arcella-types/src/value/mod.rs)                                        *)

\* the characters of the keys given to ConfigData::new
KeyChars == {".", "a"}
\* longest key
MaxKeyLen == 4
\* most keys in one map
MaxKeys == 2

RECURSIVE strings_of_len(_)
strings_of_len(n) ==
    IF n = 0 THEN {""}
    ELSE {s \o c : s \in strings_of_len(n - 1), c \in KeyChars}

DataKeys == UNION {strings_of_len(n) : n \in 0..MaxKeyLen}

\* the maps of MaxKeys distinct keys at most, in every insertion order; the
\* value of a key is the number of the insertion
DataInputs ==
    {m \in UNION {[1..n -> DataKeys] : n \in 0..MaxKeys} :
        \A i, j \in 1..Len(m) : i # j => m[i] # m[j]}

\* ---- ConfigData::new ----

\* SectionEntry
ValueKey(i) == [type |-> "ValueKey", index |-> i]
SubSection(name) == [type |-> "SubSection", name |-> name]

\* str::split('.'): the segments of s from position i on, seg being the one
\* in progress
RECURSIVE split_from(_, _, _)
split_from(s, i, seg) ==
    IF i > Len(s) THEN <<seg>>
    ELSE IF char_at(s, i) = "." THEN <<seg>> \o split_from(s, i + 1, "")
    ELSE split_from(s, i + 1, seg \o char_at(s, i))

\* line 154
split(key) == split_from(key, 1, "")

\* IndexMap::sort_keys (lines 149 and 185): the entries in ascending order of
\* their keys
sort_keys(m) ==
    [i \in 1..Len(m) |->
        only({e \in Range(m) :
                Cardinality({f \in Range(m) : str_lt(f.key, e.key)}) = i - 1})]

\* IndexMap::entry(name).or_default() (lines 165-167 and 176-178)
entry_or_default(sections, name) ==
    IF map_contains(sections, name) THEN sections
    ELSE Append(sections, [key |-> name, value |-> <<>>])

\* Vec::push on the entries of the section name
push_entry(sections, name, item) ==
    [sections EXCEPT ![map_pos(sections, name)].value = Append(@, item)]

\* lines 158-181: the iterations of the inner loop from part j on, for the
\* key at sorted position i, current_path being the path built so far
RECURSIVE index_parts(_, _, _, _, _)
index_parts(sections, i, parts, j, old_path) ==
    IF j > Len(parts) THEN sections
    ELSE
        LET current_path ==
                (IF old_path # "" THEN old_path \o "." ELSE old_path) \o parts[j]
            with_parent == entry_or_default(sections, old_path)
            section_entry == SubSection(current_path)
        IN  IF j = Len(parts)
            THEN index_parts(push_entry(with_parent, old_path, ValueKey(i)),
                             i, parts, j + 1, current_path)
            ELSE index_parts(
                   entry_or_default(
                     IF section_entry \in Range(map_get(with_parent, old_path).value)
                     THEN with_parent
                     ELSE push_entry(with_parent, old_path, section_entry),
                     current_path),
                   i, parts, j + 1, current_path)

\* lines 153-183: the iterations of the outer loop from sorted position i on
\* (positions count from 0)
RECURSIVE index_keys(_, _, _)
index_keys(sections, sorted_values, i) ==
    IF i >= Len(sorted_values) THEN sections
    ELSE index_keys(index_parts(sections, i, split(sorted_values[i + 1].key), 1, ""),
                    sorted_values, i + 1)

\* lines 147-191
ConfigData_new(values) ==
    LET sorted_values == sort_keys(values) IN
        [values |-> sorted_values,
         sections |-> sort_keys(index_keys(<<>>, sorted_values, 0))]

\* ---- the queries ----

\* lines 216-218
get(d, key) ==
    IF map_contains(d.values, key) THEN Some(map_get(d.values, key).value) ELSE None

\* lines 229-238
get_section_keys(d, section) ==
    IF ~map_contains(d.sections, section) THEN None
    ELSE Some([p \in 1..Len(SelectSeq(map_get(d.sections, section).value,
                                       LAMBDA e : e.type = "ValueKey")) |->
                 SelectSeq(map_get(d.sections, section).value,
                           LAMBDA e : e.type = "ValueKey")[p].index])

\* lines 249-258
get_subsection_names(d, section) ==
    IF ~map_contains(d.sections, section) THEN None
    ELSE Some([p \in 1..Len(SelectSeq(map_get(d.sections, section).value,
                                       LAMBDA e : e.type = "SubSection")) |->
                 SelectSeq(map_get(d.sections, section).value,
                           LAMBDA e : e.type = "SubSection")[p].name])

\* IndexMap::insert: the value of a key that is there is replaced in place
index_map_insert(m, key, value) ==
    IF map_contains(m, key) THEN [m EXCEPT ![map_pos(m, key)].value = value]
    ELSE Append(m, [key |-> key, value |-> value])

\* lines 293-298: the loop over the indices from position p on
RECURSIVE section_data_from(_, _, _, _)
section_data_from(d, indices, p, section_data) ==
    IF p > Len(indices) THEN section_data
    ELSE IF indices[p] < Len(d.values)
         THEN section_data_from(d, indices, p + 1,
                 index_map_insert(section_data, d.values[indices[p] + 1].key,
                                  d.values[indices[p] + 1].value))
         ELSE section_data_from(d, indices, p + 1, section_data)

\* lines 291-300
get_section_data(d, section) ==
    IF get_section_keys(d, section) = None THEN None
    ELSE Some(section_data_from(d, get_section_keys(d, section)[1], 1, <<>>))

\* ---- the state machine ----

data_frame ==
    UNCHANGED <<merge_vars, load_vars, scan_vars, toml_vars, alme_vars,
                server_vars, log_vars, deploy_vars>>

\* ConfigData::new
New ==
    /\ data_pc = "input"
    /\ data' = ConfigData_new(data_in)
    /\ data_pc' = "built"
    /\ UNCHANGED <<data_in, data_out>>
    /\ data_frame

Get(key) ==
    /\ data_pc = "built"
    /\ data_out' = [call |-> "get", arg |-> key, result |-> get(data, key)]
    /\ UNCHANGED <<data_pc, data_in, data>>
    /\ data_frame

GetSectionData(section) ==
    /\ data_pc = "built"
    /\ data_out' = [call |-> "get_section_data", arg |-> section,
                    result |-> get_section_data(data, section)]
    /\ UNCHANGED <<data_pc, data_in, data>>
    /\ data_frame

GetSubsectionNames(section) ==
    /\ data_pc = "built"
    /\ data_out' = [call |-> "get_subsection_names", arg |-> section,
                    result |-> get_subsection_names(data, section)]
    /\ UNCHANGED <<data_pc, data_in, data>>
    /\ data_frame

DataNext ==
    \/ New
    \/ \E key \in DataKeys : Get(key)
    \/ \E section \in DataKeys : GetSectionData(section)
    \/ \E section \in DataKeys : GetSubsectionNames(section)

DataInit ==
    /\ fs = <<>>
    /\ MergeIdle
    /\ LoadIdle
    /\ ScanIdle
    /\ TomlIdle
    /\ AlmeIdle
    /\ ServerIdle
    /\ LogIdle
    /\ DeployIdle
    /\ data_pc = "input"
    /\ \E m \in DataInputs :
         data_in = [i \in 1..Len(m) |-> [key |-> m[i], value |-> Integer(i)]]
    /\ data = <<>>
    /\ data_out = <<>>

SpecData == DataInit /\ [][DataNext]_vars





-----------------------------------------------------------------------------
(* Properties of the section index of a ConfigData                         *)

\* the positions of the dots of a key
dots(key) == {p \in 1..Len(key) : char_at(key, p) = "."}

Max(S) == CHOOSE x \in S : \A y \in S : y <= x

\* the parent path of a key: what stands before its last dot, the empty path
\* for a key of one segment
parent_path(key) ==
    IF dots(key) = {} THEN "" ELSE SubSeq(key, 1, Max(dots(key)) - 1)

\* the proper prefixes of a key: what stands before each of its dots
proper_prefixes(key) == {SubSeq(key, 1, p - 1) : p \in dots(key)}

\* how often an entry is listed in a section, 0 for a section that is not there
times_listed(d, section, item) ==
    IF ~map_contains(d.sections, section) THEN 0
    ELSE Cardinality({p \in 1..Len(map_get(d.sections, section).value) :
                        map_get(d.sections, section).value[p] = item})

\* the values are those given, in ascending order of their keys
values_sorted(d) ==
    /\ Range(d.values) = Range(data_in)
    /\ Len(d.values) = Len(data_in)
    /\ \A i, j \in 1..Len(d.values) : i < j => str_lt(d.values[i].key, d.values[j].key)

\* the key at sorted position i (from 0) is listed once, in the section of
\* its parent path, and in no other section
value_key_in_parent(d) ==
    \A i \in 0..(Len(d.values) - 1) :
        /\ times_listed(d, parent_path(d.values[i + 1].key), ValueKey(i)) = 1
        /\ \A section \in map_keys(d.sections) \ {parent_path(d.values[i + 1].key)} :
               times_listed(d, section, ValueKey(i)) = 0

\* every proper prefix of a key is a section, listed once as a SubSection of
\* its own parent
prefixes_are_sections(d) ==
    \A i \in 1..Len(d.values) :
        \A prefix \in proper_prefixes(d.values[i].key) :
            /\ map_contains(d.sections, prefix)
            /\ times_listed(d, parent_path(prefix), SubSection(prefix)) = 1

\* get_section_data(s) returns only values that are direct children of s
section_data_is_direct(d) ==
    \A section \in DataKeys :
        get_section_data(d, section) # None =>
            \A item \in Range(get_section_data(d, section)[1]) :
                /\ parent_path(item.key) = section
                /\ item \in Range(data_in)

\* get(k) returns the value stored for k, or None
get_returns_stored(d) ==
    \A key \in DataKeys :
        get(d, key) =
            IF \E item \in Range(data_in) : item.key = key
            THEN Some((CHOOSE item \in Range(data_in) : item.key = key).value)
            ELSE None

section_index(d) ==
    /\ values_sorted(d)
    /\ value_key_in_parent(d)
    /\ prefixes_are_sections(d)
    /\ section_data_is_direct(d)
    /\ get_returns_stored(d)

\* C37: after ConfigData::new the values are sorted ascending by key; for
\* every key at sorted position i, ValueKey(i) appears exactly once, in the
\* section named by the key's parent path, and in no other section; every
\* proper prefix of a key is a section and is listed once as a SubSection of
\* its own parent; get_section_data(s) returns only the values that are
\* direct children of s, and get(k) returns the value stored for k or None.
C37_SectionIndex == data_pc = "built" => section_index(data)

\* C37, what holds: the same of every map none of whose keys starts with a dot
C37_SectionIndexWithoutLeadingDot ==
    (data_pc = "built" /\ \A item \in Range(data_in) : ~starts_with(item.key, "."))
        => section_index(data)

\* C37: two keys of the section "a", given in descending order, and what
\* get_section_data returns for "a"
C37_Witness ==
    /\ data_pc = "built"
    /\ data_in = <<[key |-> "a.aa", value |-> Integer(1)],
                   [key |-> "a.a", value |-> Integer(2)]>>
    /\ data_out # <<>>
    /\ data_out.call = "get_section_data"
    /\ data_out.arg = "a"
    /\ data_out.result = Some(<<[key |-> "a.a", value |-> Integer(2)],
                                [key |-> "a.aa", value |-> Integer(1)]>>)



-----------------------------------------------------------------------------
(* The in-memory log buffer: AlmeBufferLayer::on_event and get_recent_logs *)
(* called from several threads (src/log/mod.rs)                            *)

\* threads that log and ask for the recent lines
MaxThreads == 2
Threads == 1..MaxThreads
\* largest alme_buffer_size
MaxBufferSize == 2
\* most events logged in one run
MaxEvents == 3

thread_idle == [pc |-> "idle", line |-> 0, n |-> 0, result |-> None]

\* lines 95-98 and 148-151 of init: the buffer is set, and the layer is
\* registered, when alme_buffer_size > 0
LogInit ==
    /\ log_pc = "running"
    /\ max_size \in 0..MaxBufferSize
    /\ log_buffer = IF max_size > 0 THEN Some(<<>>) ELSE None
    /\ log_mutex = [holder |-> None, poisoned |-> FALSE]
    /\ log_threads = [t \in Threads |-> thread_idle]
    /\ event_log = <<>>

log_frame ==
    UNCHANGED <<merge_vars, load_vars, scan_vars, toml_vars, alme_vars,
                server_vars, data_vars, deploy_vars>>

\* lines 51-53
get_log_buffer == log_buffer

\* lines 331-334: VecDeque::pop_front when the buffer is full, then push_back
push_line(buf, line) ==
    (IF Len(buf) >= max_size THEN Tail(buf) ELSE buf) \o <<line>>

\* Iterator::rev
rev(buf) == [i \in 1..Len(buf) |-> buf[Len(buf) - i + 1]]

\* Iterator::take
take(s, n) == SubSeq(s, 1, min(n, Len(s)))

\* lines 292-327: a thread logs an event; the layer is called when it is
\* registered, finds the buffer and builds the line
OnEvent(t) ==
    /\ log_pc = "running"
    /\ max_size > 0
    /\ log_threads[t].pc = "idle"
    /\ Len(event_log) < MaxEvents
    /\ event_log' = Append(event_log, Len(event_log) + 1)
    /\ log_threads' =
         [log_threads EXCEPT ![t] =
            IF get_log_buffer # None
            THEN [pc |-> "first_lock", line |-> Len(event_log) + 1, n |-> 0,
                  result |-> None]
            ELSE thread_idle]
    /\ UNCHANGED <<log_pc, max_size, log_buffer, log_mutex>>
    /\ log_frame

\* line 328, `let mut buf = buffer.lock().unwrap();`: the thread waits while
\* another one holds the mutex; a poisoned mutex makes unwrap panic, and the
\* guard carried by the error is dropped
FirstLock(t) ==
    /\ log_threads[t].pc = "first_lock"
    /\ log_mutex.holder = None
    /\ IF log_mutex.poisoned
       THEN /\ log_threads' = [log_threads EXCEPT ![t].pc = "panicked"]
            /\ UNCHANGED log_mutex
       ELSE /\ log_threads' = [log_threads EXCEPT ![t].pc = "second_lock"]
            /\ log_mutex' = [log_mutex EXCEPT !.holder = Some(t)]
    /\ UNCHANGED <<log_pc, max_size, log_buffer, event_log>>
    /\ log_frame

\* lines 329-340, `match buffer.lock()`.  Mutex::lock called by the thread
\* that holds the lock does not return: it blocks for ever or it panics, and
\* a panic drops the guard of line 328, which poisons and releases the mutex.
SecondLock(t) ==
    /\ log_threads[t].pc = "second_lock"
    /\ IF log_mutex.holder = Some(t)
       THEN \/ /\ log_threads' = [log_threads EXCEPT ![t].pc = "waiting"]
               /\ UNCHANGED <<log_mutex, log_buffer>>
            \/ /\ log_threads' = [log_threads EXCEPT ![t].pc = "panicked"]
               /\ log_mutex' = [holder |-> None, poisoned |-> TRUE]
               /\ UNCHANGED log_buffer
       ELSE /\ log_mutex.holder = None
            /\ log_threads' = [log_threads EXCEPT ![t] = thread_idle]
            /\ UNCHANGED log_mutex
            /\ log_buffer' =
                 IF log_mutex.poisoned THEN log_buffer
                 ELSE Some(push_line(log_buffer[1], log_threads[t].line))
    /\ UNCHANGED <<log_pc, max_size, event_log>>
    /\ log_frame

\* lines 358-359 and 369-371: get_recent_logs(n) is called; without a buffer
\* it returns an empty vector
GetRecentLogs(t, n) ==
    /\ log_pc = "running"
    /\ log_threads[t].pc = "idle"
    /\ log_threads' =
         [log_threads EXCEPT ![t] =
            IF get_log_buffer # None
            THEN [pc |-> "read", line |-> 0, n |-> n, result |-> None]
            ELSE [pc |-> "idle", line |-> 0, n |-> n, result |-> Some(<<>>)]]
    /\ UNCHANGED <<log_pc, max_size, log_buffer, log_mutex, event_log>>
    /\ log_frame

\* lines 360-368: the lock is taken, the lines are copied, the guard is
\* dropped; a poisoned mutex gives an empty vector
ReadBuffer(t) ==
    /\ log_threads[t].pc = "read"
    /\ log_mutex.holder = None
    /\ log_threads' =
         [log_threads EXCEPT ![t].pc = "idle",
                             ![t].result =
                                IF log_mutex.poisoned THEN Some(<<>>)
                                ELSE Some(take(rev(log_buffer[1]), log_threads[t].n))]
    /\ UNCHANGED <<log_pc, max_size, log_buffer, log_mutex, event_log>>
    /\ log_frame

LogNext ==
    \E t \in Threads :
        \/ OnEvent(t)
        \/ FirstLock(t)
        \/ SecondLock(t)
        \/ \E n \in 0..MaxBufferSize : GetRecentLogs(t, n)
        \/ ReadBuffer(t)

LogStart ==
    /\ fs = <<>>
    /\ MergeIdle
    /\ LoadIdle
    /\ ScanIdle
    /\ TomlIdle
    /\ AlmeIdle
    /\ ServerIdle
    /\ DataIdle
    /\ DeployIdle
    /\ LogInit

SpecLog == LogStart /\ [][LogNext]_vars

\* The operating system runs every thread that can run, so a step of a thread
\* that stays possible is taken: weak fairness of the steps inside a call.
\* Nothing obliges a thread to make a call.
LogFairness ==
    \A t \in Threads :
        /\ WF_vars(FirstLock(t))
        /\ WF_vars(SecondLock(t))
        /\ WF_vars(ReadBuffer(t))

SpecLogFair == SpecLog /\ LogFairness

-----------------------------------------------------------------------------
(* Properties of the log buffer                                            *)

\* the n most recent of the lines, the most recent first
most_recent(lines, n) ==
    [i \in 1..min(n, Len(lines)) |-> lines[Len(lines) - i + 1]]

\* the buffer holds at most alme_buffer_size lines
buffer_bounded == log_buffer # None => Len(log_buffer[1]) <= max_size

\* the step in which on_event gets past the lock of line 329 appends the
\* line of the event, after dropping the oldest line of a full buffer
event_recorded(t) ==
    (log_threads[t].pc = "second_lock" /\ log_threads'[t].pc # "second_lock") =>
        /\ log_buffer # None
        /\ log_buffer' =
             Some(IF Len(log_buffer[1]) = max_size
                  THEN Tail(log_buffer[1]) \o <<log_threads[t].line>>
                  ELSE log_buffer[1] \o <<log_threads[t].line>>)

\* the step in which get_recent_logs(n) returns gives the min(n, length)
\* most recent lines, nothing when the buffer is disabled
recent_logs_returned(t) ==
    (log_threads[t].result = None /\ log_threads'[t].result # None) =>
        log_threads'[t].result =
            Some(IF log_buffer = None THEN <<>>
                 ELSE most_recent(log_buffer[1], log_threads'[t].n))

\* C38: the buffer holds at most alme_buffer_size entries after any sequence
\* of recorded events, recording an event into a full buffer evicts exactly
\* the oldest entry before appending the new one, and get_recent_logs(n)
\* returns min(n, current length) entries, most recent first (an empty list
\* when the buffer is disabled).
C38_BoundedRing ==
    /\ []buffer_bounded
    /\ [][\A t \in Threads : event_recorded(t)]_vars
    /\ [][\A t \in Threads : recent_logs_returned(t)]_vars

\* C38, what holds: the bound, as no line is ever appended, and what
\* get_recent_logs returns when it returns
C38_BoundAndQueries ==
    /\ [](log_buffer # None => log_buffer[1] = <<>>)
    /\ [][\A t \in Threads : recent_logs_returned(t)]_vars

\* a thread is inside on_event or get_recent_logs
in_call(t) == log_threads[t].pc \notin {"idle", "panicked"}

\* the thread has returned from its call
returned(t) == log_threads[t].pc = "idle"

\* the line of the event is in the buffer or was evicted by later ones
line_recorded(line) ==
    log_buffer # None /\ \E later \in Range(log_buffer[1]) : later >= line

\* C39: every call of on_event that finds the buffer initialised acquires the
\* mutex, appends its line, releases the mutex and returns, and every call
\* of on_event and get_recent_logs made from several threads eventually
\* completes.
C39_CallsComplete ==
    \A t \in Threads :
        /\ in_call(t) ~> returned(t)
        /\ \A line \in 1..MaxEvents :
             (log_threads[t].pc = "first_lock" /\ log_threads[t].line = line)
                 ~> (returned(t) /\ line_recorded(line))

\* C39, what holds: a call of get_recent_logs made while no on_event call has
\* got hold of the mutex, or after one has panicked, returns
C39_QueriesReturnWhileUnlocked ==
    \A t \in Threads :
        [](log_threads[t].pc = "read" /\ log_mutex.holder = None
             => <>(returned(t) \/ log_mutex.holder # None))





-----------------------------------------------------------------------------
(* DeploymentSpec::create_deployment (arcella/src/manifest/mod.rs)         *)

\* most replicas a specification asks for
MaxReplicas == 2

\* IsolationMode
IsolationModes == {"Main", "Worker"}

\* StartupConfig and ResourceRequirements: record values told apart by the
\* entry point and by the memory limit they name
StartupConfig_default == [entrypoint |-> None, shutdown |-> None]
startup_with(entrypoint) == [entrypoint |-> Some(entrypoint), shutdown |-> None]
ResourceRequirements_default == [memory_mb |-> None, fuel |-> None, cpu_shares |-> None]
resources_with(memory_mb) == [memory_mb |-> Some(memory_mb), fuel |-> None, cpu_shares |-> None]

\* lines 348-360: the untrusted worker
DeploymentTemplate_default ==
    [isolation |-> "Worker", trusted |-> FALSE, async |-> FALSE, group |-> None,
     startup |-> StartupConfig_default, resources |-> ResourceRequirements_default]

\* the templates and specifications create_deployment is called with
DeploymentTemplates ==
    [isolation : IsolationModes, trusted : BOOLEAN, async : BOOLEAN,
     group : {None, Some("default")},
     startup : {StartupConfig_default, startup_with("init")},
     resources : {ResourceRequirements_default}]

DeploymentOverridesSet ==
    [isolation : {None} \cup {Some(i) : i \in IsolationModes},
     trusted : {None, Some(TRUE), Some(FALSE)},
     async : {None, Some(TRUE), Some(FALSE)},
     startup : {None, Some(startup_with("run"))},
     resources : {None, Some(resources_with(64))}]

DeploymentSpecs ==
    [module_id : {"test@1.0.0"}, group : {"web", "default"},
     replicas : 0..MaxReplicas, overrides : DeploymentOverridesSet]

\* ArcellaResult
Ok(x) == [ok |-> TRUE, value |-> x]
Manifest(message) == [ok |-> FALSE, error |-> [variant |-> "Manifest", message |-> message]]

\* Option::unwrap_or
unwrap_or(option, default) == IF option = None THEN default ELSE option[1]

\* lines 718-730
validate_isolation_constraints(isolation, trusted, async) ==
    IF trusted /\ isolation # "Main"
    THEN Manifest("Only 'main' isolation can be trusted")
    ELSE IF isolation = "Main" /\ ~async
    THEN Manifest("'main' isolation requires async = true")
    ELSE Ok(<<>>)

\* FullDeployment::validate without the test of the replicas
validate_any_replicas(deployment) ==
    validate_isolation_constraints(deployment.isolation, deployment.trusted,
                                   deployment.async)

\* lines 547-561: FullDeployment::validate
validate(deployment) ==
    IF ~validate_isolation_constraints(deployment.isolation, deployment.trusted,
                                       deployment.async).ok
    THEN validate_isolation_constraints(deployment.isolation, deployment.trusted,
                                        deployment.async)
    ELSE IF deployment.isolation = "Main" /\ deployment.replicas # 1
    THEN Manifest("Main isolation supports only 1 replica")
    ELSE Ok(<<>>)

\* lines 484-511
create_deployment(self, template) ==
    LET base == unwrap_or(template, DeploymentTemplate_default)
        deployment ==
            [module_id |-> self.module_id,
             group |-> self.group,
             replicas |-> self.replicas,
             isolation |-> unwrap_or(self.overrides.isolation, base.isolation),
             trusted |-> unwrap_or(self.overrides.trusted, base.trusted),
             async |-> unwrap_or(self.overrides.async, base.async),
             startup |-> unwrap_or(self.overrides.startup, base.startup),
             resources |-> unwrap_or(self.overrides.resources, base.resources)]
    IN  IF validate(deployment).ok THEN Ok(deployment) ELSE validate(deployment)

deploy_frame ==
    UNCHANGED <<merge_vars, load_vars, scan_vars, toml_vars, alme_vars,
                server_vars, data_vars, log_vars>>

CreateDeployment ==
    /\ deploy_pc = "ready"
    /\ deploy_out' = create_deployment(deploy_in.spec, deploy_in.template)
    /\ deploy_pc' = "returned"
    /\ UNCHANGED deploy_in
    /\ deploy_frame

DeployNext == CreateDeployment

DeployInit ==
    /\ fs = <<>>
    /\ MergeIdle
    /\ LoadIdle
    /\ ScanIdle
    /\ TomlIdle
    /\ AlmeIdle
    /\ ServerIdle
    /\ DataIdle
    /\ LogIdle
    /\ deploy_pc = "ready"
    /\ deploy_in \in [spec : DeploymentSpecs,
                      template : {None} \cup {Some(t) : t \in DeploymentTemplates}]
    /\ deploy_out = <<>>

SpecDeploy == DeployInit /\ [][DeployNext]_vars

-----------------------------------------------------------------------------
(* Properties of the deployments created                                   *)

\* the isolation constraints of a deployment
constraints_hold(d) ==
    /\ d.trusted => d.isolation = "Main"
    /\ d.isolation = "Main" => d.async
    /\ d.isolation = "Main" => d.replicas = 1

\* group, module_id and replicas are those of the specification
identity_from_spec(d, spec) ==
    /\ d.group = spec.group
    /\ d.module_id = spec.module_id
    /\ d.replicas = spec.replicas

\* a field the specification overrides has the value of the override, any
\* other the value of the template, or of the untrusted worker without one
overrides_take_precedence(d, spec, template) ==
    \A field \in {"isolation", "trusted", "async", "startup", "resources"} :
        d[field] =
            IF spec.overrides[field] # None THEN spec.overrides[field][1]
            ELSE IF template # None THEN template[1][field]
            ELSE [isolation |-> "Worker", trusted |-> FALSE, async |-> FALSE,
                  startup |-> [entrypoint |-> None, shutdown |-> None],
                  resources |-> [memory_mb |-> None, fuel |-> None,
                                 cpu_shares |-> None]][field]

\* C40: every FullDeployment returned Ok by create_deployment satisfies
\* trusted => isolation = Main, isolation = Main => async = true and
\* isolation = Main => replicas = 1; its group, module_id and replicas are
\* those of the specification, never the template's group; each override
\* present in the specification takes precedence over the template value,
\* and with no template the untrusted-worker defaults are used.
C40_DeploymentConstraints ==
    (deploy_pc = "returned" /\ deploy_out.ok) =>
        /\ constraints_hold(deploy_out.value)
        /\ identity_from_spec(deploy_out.value, deploy_in.spec)
        /\ overrides_take_precedence(deploy_out.value, deploy_in.spec,
                                     deploy_in.template)

\* a trusted deployment in the main thread, made so by the overrides of a
\* specification placed on a worker template of another group
C40_Witness ==
    /\ deploy_pc = "returned"
    /\ deploy_out.ok
    /\ deploy_in.template # None
    /\ deploy_in.template[1].isolation = "Worker"
    /\ deploy_in.template[1].group = Some("default")
    /\ deploy_in.spec.group = "web"
    /\ deploy_in.spec.overrides.isolation = Some("Main")
    /\ deploy_out.value.trusted
    /\ deploy_out.value.group = "web"

\* a deployment made without a template and without overrides: the
\* untrusted worker
C40_WitnessDefaults ==
    /\ deploy_pc = "returned"
    /\ deploy_out.ok
    /\ deploy_in.template = None
    /\ \A field \in DOMAIN deploy_in.spec.overrides :
           deploy_in.spec.overrides[field] = None
    /\ deploy_out.value.isolation = "Worker"
    /\ ~deploy_out.value.trusted
    /\ deploy_in.spec.replicas = MaxReplicas



====
